---- MODULE Spec2Model ----
(***************************************************************************)
(* The two reminder edge functions of the dashboard:                       *)
(*   send-reminders (habit job, supabase/functions/send-reminders)         *)
(*   tasks-hourly-reminders (task job)                                     *)
(* Each HTTP invocation is a sequential async handler.  An action is the   *)
(* code that runs between two awaits: it consumes the answer of the call   *)
(* it was waiting for and runs up to the next awaited call or the          *)
(* response.  The store, the identity provider and the email API are       *)
(* collaborators: the store's rows are state, their answers (data or an    *)
(* error, an exception) are chosen when the call returns.                  *)
(* The scheduler (pg_cron) that posts to the habit job, and the tables of  *)
(* the migrations under the statements of browser clients, have            *)
(* specifications of their own further down, and so have three components  *)
(* of the dashboard: SleepTracker (the duration of a log), TaskTracker     *)
(* (toggling a task) and JournalTracker (autosave and upsert of a page).   *)
(***************************************************************************)
EXTENDS Integers, Sequences, FiniteSets, TLC

VARIABLES
    store,   \* the rows of the database, table by table
    sched,   \* the instants (UTC seconds) at which the scheduler may fire;
             \* for JournalTracker, the browser's clock and timeouts
    inv,     \* invocation slot -> the handler's local state; for a
             \* component of the dashboard, its React state
    calls    \* invocation slot -> the collaborator calls it issued, in order;
             \* for the clients of the database, their last statement; for
             \* a component, the requests it has issued

vars == <<store, sched, inv, calls>>

----------------------------------------------------------------------------
(* Bounds of the model *)

\* rows of public.habits
NHabits == 3
\* rows of public.tasks
NTasks == 3
\* rows the clients' tables hold together (profiles apart)
MaxRows == 2
\* rows public.habits and public.habit_entries hold together
MaxEntries == 3

Users == {"u1", "u2"}

----------------------------------------------------------------------------
(* Values *)

\* a profile row's email column when it is null (falsy in `if (p.email)`)
NoEmail == <<>>
\* the address cached on the profile row / the address the identity
\* provider holds; kept distinct so that the source of a recipient shows
ProfileEmail(u) == <<u, "profiles.email">>
AuthEmail(u) == <<u, "auth.users.email">>

\* notify_time null
NoTime == <<>>
TimeOfDay(h, m, s) == <<h, m, s>>

\* text as a sequence of character codes
Digit(d) == 48 + d

\* String(n).padStart(2, "0") for 0 <= n <= 59
PadStart2(n) == <<Digit(n \div 10), Digit(n % 10)>>

\* the time literal the habits query is given: `${hh}:${mm}:00`
FormatMinute(hh, mm) ==
    PadStart2(hh) \o <<58>> \o PadStart2(mm) \o <<58, Digit(0), Digit(0)>>

\* the store's reading of an HH:MM:SS literal as a time-of-day value
ParseTime(s) ==
    TimeOfDay((s[1] - 48) * 10 + (s[2] - 48),
              (s[4] - 48) * 10 + (s[5] - 48),
              (s[7] - 48) * 10 + (s[8] - 48))

\* an offset of five hours, the half hour left out
IstOf_FiveHours(now) == now + (5 * 60) * 60

\* new Date(now.getTime() + (5 * 60 + 30) * 60 * 1000), in seconds
IstOf(now) == now + (5 * 60 + 30) * 60
\* getUTCHours / getUTCMinutes / the calendar day of getUTCFullYear-Month-Date
UTCHours(t) == (t \div 3600) % 24
UTCMinutes(t) == (t \div 60) % 60
UTCDay(t) == t \div 86400

\* a UTC instant given by its day, hour, minute and second in IST
AtIst(day, h, m, s) == day * 86400 + h * 3600 + m * 60 + s - (5 * 60 + 30) * 60

----------------------------------------------------------------------------
(* The store *)

HabitOwner(i) == IF i % 2 = 1 THEN "u1" ELSE "u2"
HabitNames == <<"Meditate", "Read", "Run", "Stretch", "Write">>
HabitName(i) == HabitNames[((i - 1) % Len(HabitNames)) + 1]

\* the notify_time values rows carry: null, two whole minutes of the day
\* and a time with seconds
NotifyTimes ==
    {NoTime, TimeOfDay(14, 0, 0), TimeOfDay(14, 1, 0), TimeOfDay(14, 0, 30)}

HabitRow(i, t, a) ==
    [id |-> i, name |-> HabitName(i), user_id |-> HabitOwner(i),
     notify_time |-> t, active |-> a]

\* public.habits as the sequence of its rows
HabitTables ==
    { [i \in 1..NHabits |-> HabitRow(i, c[i][1], c[i][2])] :
        c \in [1..NHabits -> NotifyTimes \X BOOLEAN] }

\* task titles, as character codes: "Banana", "apple", "cherry", "Apple"
TitlePool ==
    << <<66, 97, 110, 97, 110, 97>>, <<97, 112, 112, 108, 101>>,
       <<99, 104, 101, 114, 114, 121>>, <<65, 112, 112, 108, 101>> >>

TaskOwner(i) == IF i % 3 = 0 THEN "u2" ELSE "u1"
TaskTitle(i) == TitlePool[((i - 1) % Len(TitlePool)) + 1]

\* the days (numbered from the epoch) task rows are dated
TaskDates == {0, 1}

TaskRow(i, d, c) ==
    [id |-> i, title |-> TaskTitle(i), user_id |-> TaskOwner(i),
     completed |-> c, date |-> d]

\* public.tasks as the sequence of its rows
TaskTables ==
    { [i \in 1..NTasks |-> TaskRow(i, c[i][1], c[i][2])] :
        c \in [1..NTasks -> TaskDates \X BOOLEAN] }

\* profiles.email per user: the cached address or null
ProfileTables == [Users -> BOOLEAN]
ProfileRowEmail(profiles, u) == IF profiles[u] THEN ProfileEmail(u) ELSE NoEmail

----------------------------------------------------------------------------
(* The handlers' local state and the call log *)

NoResponse == <<>>
Response(status, body) == [status |-> status, body |-> body]

MissingSecrets == "Missing secrets: SUPABASE_SERVICE_ROLE_KEY or RESEND_API_KEY"

\* a slot in which no handler has started; method, serviceKey and resendKey
\* are what the request and Deno.env hand to the handler that starts
Idle ==
    [pc |-> "idle", job |-> "none", now |-> 0, method |-> "POST",
     serviceKey |-> TRUE, resendKey |-> TRUE, rows |-> <<>>, userIds |-> <<>>,
     tasksByUser |-> <<>>, emailByUser |-> <<>>, i |-> 0, email |-> NoEmail,
     sent |-> 0, response |-> NoResponse]

\* the handler's locals as the request comes in
Started(job, now, method, serviceKey, resendKey) ==
    [Idle EXCEPT !.job = job, !.now = now, !.method = method,
                 !.serviceKey = serviceKey, !.resendKey = resendKey]

Call(kind, arg, for) == [kind |-> kind, arg |-> arg, for |-> for, res |-> "pending"]

\* the pending call (the last one issued) has returned with res
Answered(cs, res) == [cs EXCEPT ![Len(cs)].res = res]

Finish(l, status, body) ==
    [l EXCEPT !.pc = "done", !.response = Response(status, body)]

----------------------------------------------------------------------------
(* Habit job: supabase/functions/send-reminders/index.ts *)

\* the minute read off the UTC clock, the offset forgotten
CurrentMinute_Utc(now) == FormatMinute(UTCHours(now), UTCMinutes(now))

\* lines 32-37: the IST minute as the literal HH:MM:00
CurrentMinute(now) == FormatMinute(UTCHours(IstOf(now)), UTCMinutes(IstOf(now)))

\* the query without its .eq("active", true)
HabitsQuery_IgnoresActive(habits, currentMinute) ==
    SelectSeq(habits, LAMBDA h : h.notify_time = ParseTime(currentMinute))

\* a "last sent" marker: a habit some invocation already has a reminder for
\* is left out
HabitsQuery_SkipsMailed(habits, currentMinute) ==
    SelectSeq(habits, LAMBDA h :
        /\ h.active
        /\ h.notify_time = ParseTime(currentMinute)
        /\ ~\E q \in DOMAIN calls : \E k \in 1..Len(calls[q]) :
               /\ inv[q].job = "habit"
               /\ calls[q][k].kind = "send"
               /\ calls[q][k].for = h.id)

\* a backfill: every habit whose time of day has passed is matched
HabitsQuery_CatchesUp(habits, currentMinute) ==
    SelectSeq(habits, LAMBDA h :
        /\ h.active
        /\ h.notify_time # NoTime
        /\ h.notify_time[1] * 3600 + h.notify_time[2] * 60 + h.notify_time[3]
              <= ParseTime(currentMinute)[1] * 3600 + ParseTime(currentMinute)[2] * 60)

\* .from("habits").eq("active", true).eq("notify_time", currentMinute)
HabitsQuery(habits, currentMinute) ==
    SelectSeq(habits, LAMBDA h : h.active /\ h.notify_time = ParseTime(currentMinute))

\* Array.from(new Set(rows.map(r => r.user_id))): distinct, first occurrence first
RECURSIVE Distinct(_)
Distinct(s) ==
    IF s = <<>> THEN <<>>
    ELSE LET d == Distinct(SubSeq(s, 1, Len(s) - 1))
         IN  IF \E k \in 1..Len(d) : d[k] = s[Len(s)] THEN d ELSE Append(d, s[Len(s)])

OwnersOf(rows) == Distinct([k \in 1..Len(rows) |-> rows[k].user_id])

\* the profile rows' emails are dropped: every user goes to the fallback
EmailByUser_Empty(profiles, userIds) == [u \in Users |-> NoEmail]

\* .from("profiles").select("id, email").in("id", userIds), then
\* forEach(p => { if (p.email) emailByUser.set(p.id, p.email) });
\* a user without an entry reads as NoEmail (Map.get gives undefined)
EmailByUser(profiles, userIds) ==
    [u \in Users |->
        IF \E k \in 1..Len(userIds) : userIds[k] = u
        THEN ProfileRowEmail(profiles, u) ELSE NoEmail]

\* a subject that does not carry the habit's name
HabitMessage_NoName(h, email, now) ==
    [from |-> "Habit Tracker <onboarding@resend.dev>",
     to |-> <<email>>,
     subject |-> <<"Reminder: ">>,
     html |-> [habit |-> h.name,
               hh |-> PadStart2(UTCHours(IstOf(now))),
               mm |-> PadStart2(UTCMinutes(IstOf(now)))]]

\* the message of one habit reminder
HabitMessage(h, email, now) ==
    [from |-> "Habit Tracker <onboarding@resend.dev>",
     to |-> <<email>>,
     subject |-> <<"Reminder: ", h.name>>,
     html |-> [habit |-> h.name,
               hh |-> PadStart2(UTCHours(IstOf(now))),
               mm |-> PadStart2(UTCMinutes(IstOf(now)))]]

\* the loop body for habits[i] up to its first await, or the response after
\* the last habit: <<local state, call log>>
HabitIteration(l, cs, i) ==
    IF i > Len(l.rows)
    THEN <<Finish([l EXCEPT !.i = i], 200,
                  [sent |-> l.sent, habitsChecked |-> Len(l.rows),
                   at |-> CurrentMinute(l.now)]),
           cs>>
    ELSE LET h == l.rows[i]
             email == l.emailByUser[h.user_id]
         IN  IF email = NoEmail
             THEN <<[l EXCEPT !.pc = "awaitLookup", !.i = i, !.email = NoEmail],
                    Append(cs, Call("getUserById", h.user_id, h.id))>>
             ELSE <<[l EXCEPT !.pc = "awaitSend", !.i = i, !.email = email],
                    Append(cs, Call("send", HabitMessage(h, email, l.now), h.id))>>

Methods == {"POST", "OPTIONS"}

\* the secrets check looks at the service-role key only
HabitStart_OnlyServiceKey(p) ==
    /\ inv[p].pc = "idle"
    /\ \E now \in sched, method \in Methods, serviceKey \in BOOLEAN, resendKey \in BOOLEAN :
         LET l == Started("habit", now, method, serviceKey, resendKey)
         IN  IF method = "OPTIONS"
             THEN /\ inv' = [inv EXCEPT ![p] = Finish(l, 200, <<>>)]
                  /\ calls' = [calls EXCEPT ![p] = <<>>]
             ELSE IF ~serviceKey
             THEN /\ inv' = [inv EXCEPT ![p] = Finish(l, 500, [error |-> MissingSecrets])]
                  /\ calls' = [calls EXCEPT ![p] = <<>>]
             ELSE /\ inv' = [inv EXCEPT ![p] = [l EXCEPT !.pc = "awaitHabits"]]
                  /\ calls' = [calls EXCEPT ![p] =
                                 <<Call("habits", CurrentMinute(now), 0)>>]
    /\ UNCHANGED <<store, sched>>

\* lines 10-43: the request up to the awaited habits query
HabitStart(p) ==
    /\ inv[p].pc = "idle"
    /\ \E now \in sched, method \in Methods, serviceKey \in BOOLEAN, resendKey \in BOOLEAN :
         LET l == Started("habit", now, method, serviceKey, resendKey)
         IN  IF method = "OPTIONS"
             THEN /\ inv' = [inv EXCEPT ![p] = Finish(l, 200, <<>>)]
                  /\ calls' = [calls EXCEPT ![p] = <<>>]
             ELSE IF ~serviceKey \/ ~resendKey
             THEN /\ inv' = [inv EXCEPT ![p] = Finish(l, 500, [error |-> MissingSecrets])]
                  /\ calls' = [calls EXCEPT ![p] = <<>>]
             ELSE /\ inv' = [inv EXCEPT ![p] = [l EXCEPT !.pc = "awaitHabits"]]
                  /\ calls' = [calls EXCEPT ![p] =
                                 <<Call("habits", CurrentMinute(now), 0)>>]
    /\ UNCHANGED <<store, sched>>

\* no early return for an empty result: the profiles query is issued anyway
HabitsReturned_NoEarlyReturn(p) ==
    /\ inv[p].pc = "awaitHabits"
    /\ \/ /\ inv' = [inv EXCEPT ![p] = Finish(@, 500, [error |-> "habitsError"])]
          /\ calls' = [calls EXCEPT ![p] = Answered(@, "error")]
       \/ LET l == inv[p]
              habits == HabitsQuery(store.habits, CurrentMinute(l.now))
              userIds == OwnersOf(habits)
          IN  /\ inv' = [inv EXCEPT ![p] =
                           [l EXCEPT !.pc = "awaitProfiles", !.rows = habits,
                                     !.userIds = userIds]]
              /\ calls' = [calls EXCEPT ![p] =
                            Append(Answered(@, "data"), Call("profiles", userIds, 0))]
    /\ UNCHANGED <<store, sched>>

\* lines 45-59: the habits query returned
HabitsReturned(p) ==
    /\ inv[p].pc = "awaitHabits"
    /\ \/ \* line 45: throw habitsError
          /\ inv' = [inv EXCEPT ![p] = Finish(@, 500, [error |-> "habitsError"])]
          /\ calls' = [calls EXCEPT ![p] = Answered(@, "error")]
       \/ LET l == inv[p]
              habits == HabitsQuery(store.habits, CurrentMinute(l.now))
              userIds == OwnersOf(habits)
          IN  IF Len(habits) = 0
              THEN /\ inv' = [inv EXCEPT ![p] =
                                Finish(l, 200, [sent |-> 0, at |-> CurrentMinute(l.now)])]
                   /\ calls' = [calls EXCEPT ![p] = Answered(@, "data")]
              ELSE /\ inv' = [inv EXCEPT ![p] =
                                [l EXCEPT !.pc = "awaitProfiles", !.rows = habits,
                                          !.userIds = userIds]]
                   /\ calls' = [calls EXCEPT ![p] =
                                 Append(Answered(@, "data"), Call("profiles", userIds, 0))]
    /\ UNCHANGED <<store, sched>>

\* lines 61-71: the profiles query returned; the loop starts
HabitProfilesReturned(p) ==
    /\ inv[p].pc = "awaitProfiles"
    /\ inv[p].job = "habit"
    /\ \/ \* line 61: throw profilesError
          /\ inv' = [inv EXCEPT ![p] = Finish(@, 500, [error |-> "profilesError"])]
          /\ calls' = [calls EXCEPT ![p] = Answered(@, "error")]
       \/ LET l == [inv[p] EXCEPT !.emailByUser = EmailByUser(store.profiles, inv[p].userIds),
                                  !.sent = 0]
              next == HabitIteration(l, Answered(calls[p], "data"), 1)
          IN  /\ inv' = [inv EXCEPT ![p] = next[1]]
              /\ calls' = [calls EXCEPT ![p] = next[2]]
    /\ UNCHANGED <<store, sched>>

LookupResults == {"email", "none", "error", "threw"}

\* the lookup inside a try whose catch logs and goes on to the next habit
HabitLookupReturned_CatchesThrow(p) ==
    /\ inv[p].pc = "awaitLookup"
    /\ inv[p].job = "habit"
    /\ \E res \in LookupResults :
         LET l == inv[p]
             cs == Answered(calls[p], res)
             h == l.rows[l.i]
         IN  IF res = "email"
             THEN /\ inv' = [inv EXCEPT ![p] =
                               [l EXCEPT !.pc = "awaitSend", !.email = AuthEmail(h.user_id)]]
                  /\ calls' = [calls EXCEPT ![p] =
                                Append(cs, Call("send",
                                    HabitMessage(h, AuthEmail(h.user_id), l.now), h.id))]
             ELSE LET next == HabitIteration(l, cs, l.i + 1)
                  IN  /\ inv' = [inv EXCEPT ![p] = next[1]]
                      /\ calls' = [calls EXCEPT ![p] = next[2]]
    /\ UNCHANGED <<store, sched>>

\* lines 75-86: auth.admin.getUserById returned (no try around the call)
HabitLookupReturned(p) ==
    /\ inv[p].pc = "awaitLookup"
    /\ inv[p].job = "habit"
    /\ \E res \in LookupResults :
         LET l == inv[p]
             cs == Answered(calls[p], res)
             h == l.rows[l.i]
         IN  IF res = "threw"
             THEN \* the exception reaches the outer catch (line 105)
                  /\ inv' = [inv EXCEPT ![p] = Finish(l, 500, [error |-> "getUserById threw"])]
                  /\ calls' = [calls EXCEPT ![p] = cs]
             ELSE IF res = "email"
             THEN /\ inv' = [inv EXCEPT ![p] =
                               [l EXCEPT !.pc = "awaitSend", !.email = AuthEmail(h.user_id)]]
                  /\ calls' = [calls EXCEPT ![p] =
                                Append(cs, Call("send",
                                    HabitMessage(h, AuthEmail(h.user_id), l.now), h.id))]
             ELSE \* adminErr is logged, or the user has no email: continue
                  LET next == HabitIteration(l, cs, l.i + 1)
                  IN  /\ inv' = [inv EXCEPT ![p] = next[1]]
                      /\ calls' = [calls EXCEPT ![p] = next[2]]
    /\ UNCHANGED <<store, sched>>

SendResults == {"ok", "threw"}

\* the handler marks the habit it has mailed, switching it off in the store
HabitSendReturned_MarksSent(p) ==
    /\ inv[p].pc = "awaitSend"
    /\ inv[p].job = "habit"
    /\ \E res \in SendResults :
         LET l == [inv[p] EXCEPT !.sent = IF res = "ok" THEN @ + 1 ELSE @]
             next == HabitIteration(l, Answered(calls[p], res), l.i + 1)
         IN  /\ inv' = [inv EXCEPT ![p] = next[1]]
             /\ calls' = [calls EXCEPT ![p] = next[2]]
             /\ store' = IF res = "ok"
                         THEN [store EXCEPT !.habits[l.rows[l.i].id].active = FALSE]
                         ELSE store
    /\ UNCHANGED sched

\* sent is incremented whether the send succeeded or threw
HabitSendReturned_CountsFailures(p) ==
    /\ inv[p].pc = "awaitSend"
    /\ inv[p].job = "habit"
    /\ \E res \in SendResults :
         LET l == [inv[p] EXCEPT !.sent = @ + 1]
             next == HabitIteration(l, Answered(calls[p], res), l.i + 1)
         IN  /\ inv' = [inv EXCEPT ![p] = next[1]]
             /\ calls' = [calls EXCEPT ![p] = next[2]]
    /\ UNCHANGED <<store, sched>>

\* lines 88-99: resend.emails.send returned or threw (caught at line 96)
HabitSendReturned(p) ==
    /\ inv[p].pc = "awaitSend"
    /\ inv[p].job = "habit"
    /\ \E res \in SendResults :
         LET l == [inv[p] EXCEPT !.sent = IF res = "ok" THEN @ + 1 ELSE @]
             next == HabitIteration(l, Answered(calls[p], res), l.i + 1)
         IN  /\ inv' = [inv EXCEPT ![p] = next[1]]
             /\ calls' = [calls EXCEPT ![p] = next[2]]
    /\ UNCHANGED <<store, sched>>

----------------------------------------------------------------------------
(* Task job: tasks-hourly-reminders *)

\* the window closed an hour early: istHour >= 22
TaskGuard_ClosesAt22(istHour, istMinute) ==
    IF istHour < 10 \/ istHour >= 22 THEN "hours"
    ELSE IF istMinute # 0 THEN "minute"
    ELSE "proceed"

\* the guard on the hour only
TaskGuard_AnyMinute(istHour, istMinute) ==
    IF istHour < 10 \/ istHour > 22 THEN "hours" ELSE "proceed"

\* lines 39-53: "hours" outside 10..22, "minute" off the top of the hour
TaskGuard(istHour, istMinute) ==
    IF istHour < 10 \/ istHour > 22 THEN "hours"
    ELSE IF istMinute # 0 THEN "minute"
    ELSE "proceed"

SkipReason(guard) ==
    IF guard = "hours" THEN "Outside allowed hour window (10-22 IST)"
    ELSE "Not top of hour"

\* lines 55-58: the IST calendar day, as its number
DateStr(now) == UTCDay(IstOf(now))
HourLabel(now) == PadStart2(UTCHours(IstOf(now)))

\* the query without its .eq("completed", false)
TasksQuery_IgnoresCompleted(tasks, dateStr) ==
    SelectSeq(tasks, LAMBDA t : t.date = dateStr)

\* .from("tasks").eq("date", dateStr).eq("completed", false)
TasksQuery(tasks, dateStr) ==
    SelectSeq(tasks, LAMBDA t : t.date = dateStr /\ t.completed = FALSE)

\* the orders in which the store may hand back n rows (no ORDER BY)
Orders(n) == { f \in [1..n -> 1..n] : \A a, b \in 1..n : a # b => f[a] # f[b] }
InOrder(rows, f) == [k \in 1..Len(rows) |-> rows[f[k]]]

\* the rows are not split by user_id: every user gets them all
TasksByUser_Everyone(rows) ==
    [u \in Users |-> [k \in 1..Len(rows) |-> [id |-> rows[k].id, title |-> rows[k].title]]]

\* lines 78-82: user -> that user's {id, title} in row order
TasksByUser(rows) ==
    [u \in Users |->
        LET mine == SelectSeq(rows, LAMBDA t : t.user_id = u)
        IN  [k \in 1..Len(mine) |-> [id |-> mine[k].id, title |-> mine[k].title]]]

\* the base letter of a character: case is not a base difference
BaseLetter(c) == IF c \in 65..90 THEN c + 32 ELSE c

\* a comparison by character code, as a.title < b.title would be
LocaleCompare_CaseSensitive(a, b) ==
    LET n == IF Len(a) < Len(b) THEN Len(a) ELSE Len(b)
        diff == { k \in 1..n : a[k] # b[k] }
    IN  IF diff # {}
        THEN LET k == CHOOSE x \in diff : \A y \in diff : x <= y
             IN  IF a[k] < b[k] THEN -1 ELSE 1
        ELSE IF Len(a) < Len(b) THEN -1
        ELSE IF Len(a) > Len(b) THEN 1
        ELSE 0

\* a.localeCompare(b, undefined, { sensitivity: "base" }) on unaccented
\* Latin letters: -1, 0 or 1
LocaleCompare(a, b) ==
    LET n == IF Len(a) < Len(b) THEN Len(a) ELSE Len(b)
        diff == { k \in 1..n : BaseLetter(a[k]) # BaseLetter(b[k]) }
    IN  IF diff # {}
        THEN LET k == CHOOSE x \in diff : \A y \in diff : x <= y
             IN  IF BaseLetter(a[k]) < BaseLetter(b[k]) THEN -1 ELSE 1
        ELSE IF Len(a) < Len(b) THEN -1
        ELSE IF Len(a) > Len(b) THEN 1
        ELSE 0

TitleCompare(a, b) == LocaleCompare(a.title, b.title)

\* userTasks.sort(compare): Array.prototype.sort is stable
RECURSIVE SortTasks(_)
SortTasks(s) ==
    IF s = <<>> THEN <<>>
    ELSE LET x == s[Len(s)]
             front == SortTasks(SubSeq(s, 1, Len(s) - 1))
             k == Cardinality({ j \in 1..Len(front) : TitleCompare(front[j], x) <= 0 })
         IN  SubSeq(front, 1, k) \o <<x>> \o SubSeq(front, k + 1, Len(front))

\* the message of one user's reminder: the heading's hour, the count, the
\* date and the <li> items of the html
TaskMessage(userTasks, email, now) ==
    [from |-> "Personal Dashboard <onboarding@resend.dev>",
     to |-> <<email>>,
     subject |-> [text |-> "Hourly Task Reminder - hh:00 IST", hh |-> HourLabel(now)],
     html |-> [hour |-> HourLabel(now), count |-> Len(userTasks),
               date |-> DateStr(now),
               list |-> [k \in 1..Len(userTasks) |-> userTasks[k].title]]]

\* lines 114-137: sort, render and send to a resolved address
TaskSend(l, cs, email) ==
    LET userId == l.userIds[l.i]
        userTasks == SortTasks(l.tasksByUser[userId])
    IN  <<[l EXCEPT !.pc = "awaitSend", !.email = email,
                    !.tasksByUser[userId] = userTasks],
          Append(cs, Call("send", TaskMessage(userTasks, email, l.now), userId))>>

\* the loop body for userIds[i] up to its first await, or the response
\* after the last user: <<local state, call log>>
TaskIteration(l, cs, i) ==
    IF i > Len(l.userIds)
    THEN <<Finish([l EXCEPT !.i = i], 200,
                  [sent |-> l.sent, usersConsidered |-> Len(l.userIds),
                   date |-> DateStr(l.now), hour |-> HourLabel(l.now),
                   pendingTasks |-> Len(l.rows)]),
           cs>>
    ELSE LET userId == l.userIds[i]
             email == l.emailByUser[userId]
         IN  IF email = NoEmail
             THEN <<[l EXCEPT !.pc = "awaitLookup", !.i = i, !.email = NoEmail],
                    Append(cs, Call("getUserById", userId, userId))>>
             ELSE TaskSend([l EXCEPT !.i = i], cs, email)

\* the tasks query issued ahead of the two guards
TaskStart_QueriesFirst(p) ==
    /\ inv[p].pc = "idle"
    /\ \E now \in sched, method \in Methods, serviceKey \in BOOLEAN, resendKey \in BOOLEAN :
         LET l == Started("task", now, method, serviceKey, resendKey)
             istHour == UTCHours(IstOf(now))
             istMinute == UTCMinutes(IstOf(now))
             guard == TaskGuard(istHour, istMinute)
         IN  IF method = "OPTIONS"
             THEN /\ inv' = [inv EXCEPT ![p] = Finish(l, 200, <<>>)]
                  /\ calls' = [calls EXCEPT ![p] = <<>>]
             ELSE IF ~serviceKey \/ ~resendKey
             THEN /\ inv' = [inv EXCEPT ![p] = Finish(l, 500, [error |-> MissingSecrets])]
                  /\ calls' = [calls EXCEPT ![p] = <<>>]
             ELSE IF guard # "proceed"
             THEN /\ inv' = [inv EXCEPT ![p] =
                               Finish(l, 200, [skipped |-> TRUE, reason |-> SkipReason(guard),
                                               istHour |-> istHour, istMinute |-> istMinute])]
                  /\ calls' = [calls EXCEPT ![p] =
                                 Answered(<<Call("tasks", DateStr(now), 0)>>, "data")]
             ELSE /\ inv' = [inv EXCEPT ![p] = [l EXCEPT !.pc = "awaitTasks"]]
                  /\ calls' = [calls EXCEPT ![p] = <<Call("tasks", DateStr(now), 0)>>]
    /\ UNCHANGED <<store, sched>>

\* lines 11-66: the request up to the awaited tasks query
TaskStart(p) ==
    /\ inv[p].pc = "idle"
    /\ \E now \in sched, method \in Methods, serviceKey \in BOOLEAN, resendKey \in BOOLEAN :
         LET l == Started("task", now, method, serviceKey, resendKey)
             istHour == UTCHours(IstOf(now))
             istMinute == UTCMinutes(IstOf(now))
             guard == TaskGuard(istHour, istMinute)
         IN  IF method = "OPTIONS"
             THEN /\ inv' = [inv EXCEPT ![p] = Finish(l, 200, <<>>)]
                  /\ calls' = [calls EXCEPT ![p] = <<>>]
             ELSE IF ~serviceKey \/ ~resendKey
             THEN /\ inv' = [inv EXCEPT ![p] = Finish(l, 500, [error |-> MissingSecrets])]
                  /\ calls' = [calls EXCEPT ![p] = <<>>]
             ELSE IF guard # "proceed"
             THEN /\ inv' = [inv EXCEPT ![p] =
                               Finish(l, 200, [skipped |-> TRUE, reason |-> SkipReason(guard),
                                               istHour |-> istHour, istMinute |-> istMinute])]
                  /\ calls' = [calls EXCEPT ![p] = <<>>]
             ELSE /\ inv' = [inv EXCEPT ![p] = [l EXCEPT !.pc = "awaitTasks"]]
                  /\ calls' = [calls EXCEPT ![p] = <<Call("tasks", DateStr(now), 0)>>]
    /\ UNCHANGED <<store, sched>>

\* lines 68-90: the tasks query returned
TasksReturned(p) ==
    /\ inv[p].pc = "awaitTasks"
    /\ \/ \* line 68: throw tasksError
          /\ inv' = [inv EXCEPT ![p] = Finish(@, 500, [error |-> "tasksError"])]
          /\ calls' = [calls EXCEPT ![p] = Answered(@, "error")]
       \/ LET l == inv[p]
              found == TasksQuery(store.tasks, DateStr(l.now))
          IN  IF Len(found) = 0
              THEN /\ inv' = [inv EXCEPT ![p] =
                                Finish(l, 200, [sent |-> 0, users |-> 0, date |-> DateStr(l.now),
                                                hour |-> HourLabel(l.now),
                                                note |-> "No pending tasks"])]
                   /\ calls' = [calls EXCEPT ![p] = Answered(@, "data")]
              ELSE \E f \in Orders(Len(found)) :
                     LET tasks == InOrder(found, f)
                         userIds == OwnersOf(tasks)
                     IN  /\ inv' = [inv EXCEPT ![p] =
                                      [l EXCEPT !.pc = "awaitProfiles", !.rows = tasks,
                                                !.tasksByUser = TasksByUser(tasks),
                                                !.userIds = userIds]]
                         /\ calls' = [calls EXCEPT ![p] =
                                       Append(Answered(@, "data"),
                                              Call("profiles", userIds, 0))]
    /\ UNCHANGED <<store, sched>>

\* profilesError is not thrown: the loop runs on the rows of a null data
TaskProfilesReturned_IgnoresError(p) ==
    /\ inv[p].pc = "awaitProfiles"
    /\ inv[p].job = "task"
    /\ \/ LET l == [inv[p] EXCEPT !.emailByUser = [u \in Users |-> NoEmail], !.sent = 0]
              next == TaskIteration(l, Answered(calls[p], "error"), 1)
          IN  /\ inv' = [inv EXCEPT ![p] = next[1]]
              /\ calls' = [calls EXCEPT ![p] = next[2]]
       \/ LET l == [inv[p] EXCEPT !.emailByUser = EmailByUser(store.profiles, inv[p].userIds),
                                  !.sent = 0]
              next == TaskIteration(l, Answered(calls[p], "data"), 1)
          IN  /\ inv' = [inv EXCEPT ![p] = next[1]]
              /\ calls' = [calls EXCEPT ![p] = next[2]]
    /\ UNCHANGED <<store, sched>>

\* lines 92-100: the profiles query returned; the loop starts
TaskProfilesReturned(p) ==
    /\ inv[p].pc = "awaitProfiles"
    /\ inv[p].job = "task"
    /\ \/ \* line 92: throw profilesError
          /\ inv' = [inv EXCEPT ![p] = Finish(@, 500, [error |-> "profilesError"])]
          /\ calls' = [calls EXCEPT ![p] = Answered(@, "error")]
       \/ LET l == [inv[p] EXCEPT !.emailByUser = EmailByUser(store.profiles, inv[p].userIds),
                                  !.sent = 0]
              next == TaskIteration(l, Answered(calls[p], "data"), 1)
          IN  /\ inv' = [inv EXCEPT ![p] = next[1]]
              /\ calls' = [calls EXCEPT ![p] = next[2]]
    /\ UNCHANGED <<store, sched>>

\* lines 104-112: auth.admin.getUserById returned, or threw inside the try
TaskLookupReturned(p) ==
    /\ inv[p].pc = "awaitLookup"
    /\ inv[p].job = "task"
    /\ \E res \in LookupResults :
         LET l == inv[p]
             cs == Answered(calls[p], res)
             next == IF res = "email"
                     THEN TaskSend(l, cs, AuthEmail(l.userIds[l.i]))
                     ELSE TaskIteration(l, cs, l.i + 1)
         IN  /\ inv' = [inv EXCEPT ![p] = next[1]]
             /\ calls' = [calls EXCEPT ![p] = next[2]]
    /\ UNCHANGED <<store, sched>>

\* lines 131-142: resend.emails.send returned or threw (caught at line 139)
TaskSendReturned(p) ==
    /\ inv[p].pc = "awaitSend"
    /\ inv[p].job = "task"
    /\ \E res \in SendResults :
         LET l == [inv[p] EXCEPT !.sent = IF res = "ok" THEN @ + 1 ELSE @]
             next == TaskIteration(l, Answered(calls[p], res), l.i + 1)
         IN  /\ inv' = [inv EXCEPT ![p] = next[1]]
             /\ calls' = [calls EXCEPT ![p] = next[2]]
    /\ UNCHANGED <<store, sched>>

----------------------------------------------------------------------------
(* Both jobs *)

\* serve(): the response is delivered; nothing of the request is kept
Complete(p) ==
    /\ inv[p].pc = "done"
    /\ inv' = [inv EXCEPT ![p] = Idle]
    /\ calls' = [calls EXCEPT ![p] = <<>>]
    /\ UNCHANGED <<store, sched>>

----------------------------------------------------------------------------
(* Specification *)

Slots == {1}

\* IST 14:00:30, 14:01:00 and 09:00:00 of day 0, 10:00:00 of day 1
SampleInstants ==
    {AtIst(0, 14, 0, 30), AtIst(0, 14, 1, 0), AtIst(0, 9, 0, 0), AtIst(1, 10, 0, 0)}

\* the rows of one of the two tables vary, the other table is empty
Stores ==
    { [habits |-> h, tasks |-> <<>>, profiles |-> pr] :
        h \in HabitTables, pr \in ProfileTables }
    \cup
    { [habits |-> <<>>, tasks |-> t, profiles |-> pr] :
        t \in TaskTables, pr \in ProfileTables }

Init ==
    /\ store \in Stores
    /\ sched = SampleInstants
    /\ inv = [p \in Slots |-> Idle]
    /\ calls = [p \in Slots |-> <<>>]

Next ==
    \/ \E p \in DOMAIN inv : HabitStart(p)
    \/ \E p \in DOMAIN inv : HabitsReturned(p)
    \/ \E p \in DOMAIN inv : HabitProfilesReturned(p)
    \/ \E p \in DOMAIN inv : HabitLookupReturned(p)
    \/ \E p \in DOMAIN inv : HabitSendReturned(p)
    \/ \E p \in DOMAIN inv : TaskStart(p)
    \/ \E p \in DOMAIN inv : TasksReturned(p)
    \/ \E p \in DOMAIN inv : TaskProfilesReturned(p)
    \/ \E p \in DOMAIN inv : TaskLookupReturned(p)
    \/ \E p \in DOMAIN inv : TaskSendReturned(p)
    \/ \E p \in DOMAIN inv : Complete(p)

Spec == Init /\ [][Next]_vars

\* one store, and the scheduler free to fire in any minute of UTC day 0,
\* at its first or its last second
ClockStore ==
    [habits |-> [i \in 1..NHabits |-> HabitRow(i, TimeOfDay(14, 0, 0), TRUE)],
     tasks |-> [i \in 1..NTasks |-> TaskRow(i, 0, FALSE)],
     profiles |-> [u \in Users |-> u = "u1"]]

EveryMinute == { m * 60 + sec : m \in 0..1439, sec \in {0, 59} }

InitClock ==
    /\ store = ClockStore
    /\ sched = EveryMinute
    /\ inv = [p \in Slots |-> Idle]
    /\ calls = [p \in Slots |-> <<>>]

SpecClock == InitClock /\ [][Next]_vars

\* two invocations side by side (a double fire, a trigger finer than a
\* minute, a late run): one store, the instants IST 14:00:00, 14:00:30 and
\* 14:01:00 of day 0
TwoSlots == {1, 2}

TwiceStore ==
    [habits |-> [i \in 1..NHabits |->
                    IF i <= 2 THEN HabitRow(i, TimeOfDay(14, 0, 0), TRUE)
                    ELSE IF i = 3 THEN HabitRow(i, TimeOfDay(14, 0, 30), TRUE)
                    ELSE HabitRow(i, TimeOfDay(14, 0, 0), FALSE)],
     tasks |-> [i \in 1..NTasks |-> TaskRow(i, 0, i \notin {1, 3})],
     profiles |-> [u \in Users |-> u = "u2"]]

TwiceInstants == {AtIst(0, 14, 0, 0), AtIst(0, 14, 0, 30), AtIst(0, 14, 1, 0)}

InitTwice ==
    /\ store = TwiceStore
    /\ sched = TwiceInstants
    /\ inv = [p \in TwoSlots |-> Idle]
    /\ calls = [p \in TwoSlots |-> <<>>]

SpecTwice == InitTwice /\ [][Next]_vars

\* A day of the scheduler: cron.schedule('* * * * *') posts to send-reminders
\* in each minute.  sched holds the first and the last second of the minute
\* that has begun: the request reads its clock somewhere in between.  A
\* request that tried to mail somebody stays on record in its slot and the
\* next request gets a new one; a request that did not leaves nothing
\* behind.  The day is followed for as long as requests are POSTs that find
\* both secrets and whose calls come back without an error.
DayStart == AtIst(1, 0, 0, 0)

DayStore ==
    [habits |-> [i \in 1..NHabits |->
                    IF i = 1 THEN HabitRow(i, TimeOfDay(14, 0, 0), TRUE)
                    ELSE IF i = 2 THEN HabitRow(i, TimeOfDay(14, 1, 0), TRUE)
                    ELSE IF i = 3 THEN HabitRow(i, TimeOfDay(14, 0, 30), TRUE)
                    ELSE HabitRow(i, TimeOfDay(14, 1, 0), i % 2 = 0)],
     tasks |-> <<>>,
     profiles |-> [u \in Users |-> u = "u2"]]

\* the request was served and nothing it called failed
WentWell(l, cs) ==
    /\ l.pc = "done"
    /\ l.method = "POST"
    /\ l.response.status = 200
    /\ \A k \in 1..Len(cs) : cs[k].res \in {"data", "email", "none", "ok"}

\* the next minute begins: the scheduler's job posts one more request
CronFire ==
    /\ WentWell(inv[Len(inv)], calls[Len(inv)])
    /\ \E t \in sched :
         /\ t % 60 = 0
         /\ t + 60 < DayStart + 86400
         /\ sched' = {t + 60, t + 60 + 59}
    /\ IF \E k \in 1..Len(calls[Len(calls)]) : calls[Len(calls)][k].kind = "send"
       THEN /\ inv' = Append(inv, Idle)
            /\ calls' = Append(calls, <<>>)
       ELSE /\ inv' = [inv EXCEPT ![Len(inv)] = Idle]
            /\ calls' = [calls EXCEPT ![Len(calls)] = <<>>]
    /\ UNCHANGED store

InitDay ==
    /\ store = DayStore
    /\ sched = {DayStart, DayStart + 59}
    /\ inv = <<Idle>>
    /\ calls = << <<>> >>

\* the requests before the newest have all been answered
NextDay ==
    \/ CronFire
    \/ \E p \in {Len(inv)} : HabitStart(p)
    \/ \E p \in {Len(inv)} : HabitsReturned(p)
    \/ \E p \in {Len(inv)} : HabitProfilesReturned(p)
    \/ \E p \in {Len(inv)} : HabitLookupReturned(p)
    \/ \E p \in {Len(inv)} : HabitSendReturned(p)

SpecDay == InitDay /\ [][NextDay]_vars

----------------------------------------------------------------------------
(* The database as the browser clients see it: the tables of the           *)
(* migrations with their foreign keys and row-level-security policies.     *)
(* A client session holds the JWT of one user (auth.uid()) and speaks to   *)
(* the tables through PostgREST as role authenticated; the statements are  *)
(* the client's to choose, so every row value is tried, not only those the *)
(* components send.                                                        *)

Tables ==
    {"profiles", "habits", "habit_entries", "weight_entries", "sleep_logs",
     "workouts", "journal_entries"}

\* the column that holds the owner: profiles.id, user_id elsewhere
OwnerOf(t, r) == IF t = "profiles" THEN r.id ELSE r.user_id

\* "references auth.users(id) on delete cascade" on the owner column;
\* weight_entries and workouts declare user_id UUID NOT NULL and no more
ReferencesUser(t) ==
    t \in {"profiles", "habits", "habit_entries", "sleep_logs", "journal_entries"}

\* create policy ... for select using (...)
SelectPolicy(t, uid, r) == IF t = "profiles" THEN TRUE ELSE uid = r.user_id

\* create policy ... for insert with check (...)
InsertPolicy(t, uid, r) == IF t = "profiles" THEN uid = r.id ELSE uid = r.user_id

\* create policy ... for update using (...): with no WITH CHECK of its own,
\* the expression is applied to the new row as well
UpdatePolicy(t, uid, r) == IF t = "profiles" THEN uid = r.id ELSE uid = r.user_id

\* create policy ... for delete using (...); profiles has none, and a table
\* with row level security enabled denies what no policy permits
DeletePolicy(t, uid, r) == IF t = "profiles" THEN FALSE ELSE uid = r.user_id

\* gen_random_uuid(): an id the table does not hold
FreshId(rows) == CHOOSE n \in 1..(Cardinality(rows) + 1) : \A r \in rows : r.id # n

RowCount(st) ==
    Cardinality(st.habits) + Cardinality(st.habit_entries)
    + Cardinality(st.weight_entries) + Cardinality(st.sleep_logs)
    + Cardinality(st.workouts) + Cardinality(st.journal_entries)

\* habit_entries.date: two days
EntryDates == {0, 1}

\* the rows a client may offer to table t
NewRows(st, t, uid) ==
    IF t = "profiles"
    THEN { [id |-> u, email |-> e] : u \in Users, e \in {NoEmail, ProfileEmail(uid)} }
    ELSE IF t = "habit_entries"
    THEN { [id |-> FreshId(st[t]), user_id |-> u, habit_id |-> h.id, date |-> d] :
             u \in Users, h \in st.habits, d \in EntryDates }
    ELSE { [id |-> FreshId(st[t]), user_id |-> u] : u \in Users }

\* habit_entries without trg_validate_entry_ownership
ConstraintsHold_NoTrigger(st, t, r) ==
    /\ \A o \in st[t] : o.id # r.id
    /\ ReferencesUser(t) => OwnerOf(t, r) \in st.users
    /\ t = "habit_entries" =>
          /\ \E h \in st.habits : h.id = r.habit_id
          /\ \A o \in st[t] : ~(o.habit_id = r.habit_id /\ o.date = r.date)

\* primary key, foreign keys, unique (habit_id, date) and
\* trg_validate_entry_ownership
ConstraintsHold(st, t, r) ==
    /\ \A o \in st[t] : o.id # r.id
    /\ ReferencesUser(t) => OwnerOf(t, r) \in st.users
    /\ t = "habit_entries" =>
          /\ \E h \in st.habits : h.id = r.habit_id /\ h.user_id = r.user_id
          /\ \A o \in st[t] : ~(o.habit_id = r.habit_id /\ o.date = r.date)

\* a statement of a session with the rows it returned or changed; offered
\* is the row of a statement that was refused
Statement(uid, op, t, rows) ==
    [session |-> uid, op |-> op, table |-> t, rows |-> rows, offered |-> {}]
Refused(uid, op, t, r) == [Statement(uid, op, t, {}) EXCEPT !.offered = {r}]
NoStatement == Statement("none", "none", "none", {})

\* supabase.from(t).select(): the rows the select policy lets through
ClientSelect(uid, t) ==
    /\ uid \in store.users
    /\ calls' = Statement(uid, "select", t, { r \in store[t] : SelectPolicy(t, uid, r) })
    /\ UNCHANGED <<store, sched, inv>>

\* supabase.from(t).insert(r)
ClientInsert(uid, t) ==
    /\ uid \in store.users
    /\ \E r \in NewRows(store, t, uid) :
         IF InsertPolicy(t, uid, r) /\ ConstraintsHold(store, t, r)
         THEN /\ store' = [store EXCEPT ![t] = @ \cup {r}]
              /\ calls' = Statement(uid, "insert", t, {r})
         ELSE /\ store' = store
              /\ calls' = Refused(uid, "insert", t, r)
    /\ UNCHANGED <<sched, inv>>

\* the new values a client may give row r: another owner, for a profile
\* another email, for a habit entry another habit or another date
Changed(t, r, uid) ==
    IF t = "profiles"
    THEN { [r EXCEPT !.email = e] : e \in {NoEmail, ProfileEmail(uid)} }
    ELSE IF t = "habit_entries"
    THEN { [r EXCEPT !.user_id = u] : u \in Users }
         \cup { [r EXCEPT !.habit_id = h.id] : h \in store.habits }
         \cup { [r EXCEPT !.date = d] : d \in EntryDates }
    ELSE { [r EXCEPT !.user_id = u] : u \in Users }

\* supabase.from(t).update(values).eq("id", r.id): rows the update policy
\* does not let through are not seen, a new row it rejects is an error
ClientUpdate(uid, t) ==
    /\ uid \in store.users
    /\ \E r \in store[t] : \E n \in Changed(t, r, uid) :
         IF /\ UpdatePolicy(t, uid, r)
            /\ UpdatePolicy(t, uid, n)
            /\ ConstraintsHold([store EXCEPT ![t] = @ \ {r}], t, n)
         THEN /\ store' = [store EXCEPT ![t] = (@ \ {r}) \cup {n}]
              /\ calls' = Statement(uid, "update", t, {r, n})
         ELSE /\ store' = store
              /\ calls' = Refused(uid, "update", t, n)
    /\ UNCHANGED <<sched, inv>>

\* rows that reference a deleted row: habit_entries.habit_id references
\* public.habits(id) on delete cascade
EntriesOf(st, habits) == { e \in st.habit_entries : \E h \in habits : h.id = e.habit_id }

\* supabase.from(t).delete().eq("id", r.id)
ClientDelete(uid, t) ==
    /\ uid \in store.users
    /\ \E r \in store[t] :
         IF DeletePolicy(t, uid, r)
         THEN /\ store' =
                    IF t = "habits"
                    THEN [store EXCEPT !.habits = @ \ {r},
                                       !.habit_entries = @ \ EntriesOf(store, {r})]
                    ELSE [store EXCEPT ![t] = @ \ {r}]
              /\ calls' = Statement(uid, "delete", t, {r})
         ELSE /\ store' = store
              /\ calls' = Statement(uid, "delete", t, {})
    /\ UNCHANGED <<sched, inv>>

\* the user is deleted from auth.users: the rows of every table that
\* references it with on delete cascade go with it
DeleteUser(u) ==
    /\ u \in store.users
    /\ store' =
         [t \in DOMAIN store |->
            IF t = "users" THEN store.users \ {u}
            ELSE IF t = "habit_entries"
            THEN { e \in store[t] :
                     /\ e.user_id # u
                     /\ e \notin EntriesOf(store, { h \in store.habits : h.user_id = u }) }
            ELSE IF ReferencesUser(t) THEN { r \in store[t] : OwnerOf(t, r) # u }
            ELSE store[t]]
    /\ calls' = NoStatement
    /\ UNCHANGED <<sched, inv>>

\* every user has signed up: on_auth_user_created has made the profile rows
InitTables ==
    /\ store = [users |-> Users,
                profiles |-> { [id |-> u, email |-> NoEmail] : u \in Users },
                habits |-> {}, habit_entries |-> {}, weight_entries |-> {},
                sleep_logs |-> {}, workouts |-> {}, journal_entries |-> {}]
    /\ sched = {}
    /\ inv = <<>>
    /\ calls = NoStatement

NextTables ==
    \/ \E uid \in Users, t \in Tables : ClientSelect(uid, t)
    \/ \E uid \in Users, t \in Tables :
          /\ t # "profiles" => RowCount(store) < MaxRows
          /\ ClientInsert(uid, t)
    \/ \E uid \in Users, t \in Tables : ClientUpdate(uid, t)
    \/ \E uid \in Users, t \in Tables : ClientDelete(uid, t)
    \/ \E u \in Users : DeleteUser(u)

SpecTables == InitTables /\ [][NextTables]_vars

\* the statements of the clients on habits and their entries alone
EntryTables == {"habits", "habit_entries"}

NextEntries ==
    \/ \E uid \in Users, t \in EntryTables : ClientSelect(uid, t)
    \/ \E uid \in Users, t \in EntryTables :
          /\ RowCount(store) < MaxEntries
          /\ ClientInsert(uid, t)
    \/ \E uid \in Users, t \in EntryTables : ClientUpdate(uid, t)
    \/ \E uid \in Users, t \in EntryTables : ClientDelete(uid, t)

SpecEntries == InitTables /\ [][NextEntries]_vars

----------------------------------------------------------------------------
(* What the claims speak of, stated apart from the handlers' own code *)

\* the reference time zone is UTC+05:30: minute of the day, and day
RefMinuteOfDay(now) == ((now \div 60) + 330) % 1440
RefHour(now) == RefMinuteOfDay(now) \div 60
RefMinute(now) == RefMinuteOfDay(now) % 60
RefDay(now) == (now + 19800) \div 86400

Running(p, job) == inv[p].job = job /\ inv[p].pc # "idle"
Done(p, job) == inv[p].job = job /\ inv[p].pc = "done"

CallsOf(p, kind) == { k \in 1..Len(calls[p]) : calls[p][k].kind = kind }
Sends(p) == CallsOf(p, "send")
Lookups(p) == CallsOf(p, "getUserById")
Delivered(p) == { k \in Sends(p) : calls[p][k].res = "ok" }

\* the habit is due in the invocation's reference minute
Due(h, now) ==
    /\ h.active
    /\ h.notify_time = <<RefHour(now), RefMinute(now), 0>>

DueHabits(now) == { i \in 1..Len(store.habits) : Due(store.habits[i], now) }

\* the task is pending on the invocation's reference day
Pending(t, now) == ~t.completed /\ t.date = RefDay(now)

PendingTasks(now) == { i \in 1..Len(store.tasks) : Pending(store.tasks[i], now) }
PendingOf(u, now) == { i \in PendingTasks(now) : store.tasks[i].user_id = u }

Names(subject, name) == \E k \in 1..Len(subject) : subject[k] = name
Listed(list, title) == { k \in 1..Len(list) : list[k] = title }

Skipped(p) ==
    /\ Done(p, "task")
    /\ "skipped" \in DOMAIN inv[p].response.body

----------------------------------------------------------------------------
(* C1: in an invocation of the habit job, every email is sent for a habit  *)
(* that is active and whose notify_time is the current reference minute    *)
(* HH:MM:00, and names it in its subject; so none is sent for a habit that *)
(* is inactive or due at another time.                                     *)
C1_OnlyDueHabitsAreMailed ==
    \A p \in DOMAIN inv :
        Running(p, "habit") =>
            \A k \in Sends(p) :
                LET id == calls[p][k].for
                IN  /\ id \in DueHabits(inv[p].now)
                    /\ Names(calls[p][k].arg.subject, store.habits[id].name)

\* an email went out while an inactive habit of the same minute, and an
\* active habit of another minute, stayed silent
C1_Witness ==
    \E p \in DOMAIN inv :
        /\ Done(p, "habit")
        /\ Delivered(p) # {}
        /\ \E i, j \in 1..Len(store.habits) :
              /\ ~store.habits[i].active
              /\ store.habits[i].notify_time = <<RefHour(inv[p].now), RefMinute(inv[p].now), 0>>
              /\ store.habits[j].active
              /\ store.habits[j].notify_time \notin
                    {NoTime, <<RefHour(inv[p].now), RefMinute(inv[p].now), 0>>}

(* C2: in an invocation of the task job, a task that is completed or dated *)
(* another day than today (reference time zone) is in no email's list and  *)
(* is not counted in pendingTasks.                                         *)
C2_OnlyPendingTasksAreListed ==
    \A p \in DOMAIN inv :
        Running(p, "task") =>
            /\ \A k \in Sends(p) : \A i \in 1..Len(store.tasks) :
                  ~Pending(store.tasks[i], inv[p].now) =>
                      Listed(calls[p][k].arg.html.list, store.tasks[i].title) = {}
            /\ \A k \in 1..Len(inv[p].rows) : Pending(inv[p].rows[k], inv[p].now)
            /\ (Done(p, "task") /\ "pendingTasks" \in DOMAIN inv[p].response.body) =>
                  inv[p].response.body.pendingTasks = Cardinality(PendingTasks(inv[p].now))

\* an email went out while the store held a completed task of today and an
\* open task of another day
C2_Witness ==
    \E p \in DOMAIN inv :
        /\ Done(p, "task")
        /\ Delivered(p) # {}
        /\ "pendingTasks" \in DOMAIN inv[p].response.body
        /\ \E i, j \in 1..Len(store.tasks) :
              /\ store.tasks[i].completed /\ store.tasks[i].date = RefDay(inv[p].now)
              /\ ~store.tasks[j].completed /\ store.tasks[j].date # RefDay(inv[p].now)

\* the request was a POST with both secrets: it reached the guards
ReachedGuards(p) ==
    /\ Running(p, "task")
    /\ ~(Done(p, "task") /\ inv[p].response.body = <<>>)
    /\ ~(Done(p, "task") /\ "error" \in DOMAIN inv[p].response.body
                         /\ inv[p].response.body.error = MissingSecrets)

(* C3: the task job goes past its guards exactly when the reference hour   *)
(* is in 10..22 and the reference minute is 0; at every other hour and     *)
(* minute it answers 200 with skipped: true.                               *)
C3_GuardIsTopOfHourInWindow ==
    \A p \in DOMAIN inv :
        ReachedGuards(p) =>
            IF RefHour(inv[p].now) \in 10..22 /\ RefMinute(inv[p].now) = 0
            THEN /\ ~Skipped(p)
                 /\ CallsOf(p, "tasks") # {}
            ELSE /\ Skipped(p)
                 /\ inv[p].response.status = 200
                 /\ inv[p].response.body.skipped = TRUE

\* 22:00 goes past the guards
C3_Witness ==
    \E p \in DOMAIN inv :
        /\ Running(p, "task")
        /\ RefHour(inv[p].now) = 22 /\ RefMinute(inv[p].now) = 0
        /\ CallsOf(p, "tasks") # {}

(* C4: an invocation of the task job that answers skipped: true has issued *)
(* no store query, no identity lookup and no email send.                   *)
C4_SkippedTouchesNothing ==
    \A p \in DOMAIN inv : Skipped(p) => calls[p] = <<>>

C4_Witness ==
    \E p \in DOMAIN inv :
        /\ Skipped(p)
        /\ inv[p].response.body.reason = "Not top of hour"

\* the profiles query of the invocation has returned its rows
ProfilesRead(p) == \E k \in CallsOf(p, "profiles") : calls[p][k].res = "data"

HasProfileEmail(u) == ProfileRowEmail(store.profiles, u) # NoEmail

\* the user a send or a lookup is made for
UserOf(p, k) ==
    IF inv[p].job = "habit" /\ calls[p][k].kind = "send"
    THEN store.habits[calls[p][k].for].user_id
    ELSE calls[p][k].for

(* C5: when the habit job matches n >= 1 habits, every owner of one has a  *)
(* profile email and every send succeeds, it sends exactly n emails, one   *)
(* per matched habit, each to the owner's profile email with the habit's   *)
(* name in the subject, and answers 200 with sent = n, habitsChecked = n.  *)
C5_OneEmailPerDueHabit ==
    \A p \in DOMAIN inv :
        LET due == DueHabits(inv[p].now)
            n == Cardinality(due)
        IN  ( /\ Done(p, "habit")
              /\ ProfilesRead(p)
              /\ n >= 1
              /\ \A i \in due : HasProfileEmail(store.habits[i].user_id)
              /\ \A k \in Sends(p) : calls[p][k].res = "ok" )
            => /\ Cardinality(Sends(p)) = n
               /\ \A i \in due :
                     \E k \in Sends(p) :
                        /\ calls[p][k].for = i
                        /\ calls[p][k].arg.to = <<ProfileEmail(store.habits[i].user_id)>>
                        /\ Names(calls[p][k].arg.subject, store.habits[i].name)
                        /\ \A j \in Sends(p) : calls[p][j].for = i => j = k
               /\ inv[p].response.status = 200
               /\ inv[p].response.body.sent = n
               /\ inv[p].response.body.habitsChecked = n

\* two habits of different owners are due, both emails went out
C5_Witness ==
    \E p \in DOMAIN inv :
        /\ Done(p, "habit")
        /\ Cardinality(DueHabits(inv[p].now)) = 2
        /\ \A i \in DueHabits(inv[p].now) : HasProfileEmail(store.habits[i].user_id)
        /\ Cardinality(Delivered(p)) = 2
        /\ \E j, k \in Sends(p) : calls[p][j].arg.to # calls[p][k].arg.to

\* the address the code resolves for u: the profile row's, else the
\* identity provider's
OwnAddress(u) == IF HasProfileEmail(u) THEN ProfileEmail(u) ELSE AuthEmail(u)

(* C6: in a proceeding invocation of the task job, a user with pending      *)
(* tasks is sent at most one email; it goes to that user's own resolved    *)
(* address, lists every pending task of that user exactly once and no      *)
(* task of anyone else, and states the number of that user's pending tasks.*)
C6_OneListPerUser ==
    \A p \in DOMAIN inv :
        Running(p, "task") =>
            /\ \A j, k \in Sends(p) : calls[p][j].for = calls[p][k].for => j = k
            /\ \A k \in Sends(p) :
                  LET u == calls[p][k].for
                      mine == PendingOf(u, inv[p].now)
                      msg == calls[p][k].arg
                  IN  /\ mine # {}
                      /\ msg.to = <<OwnAddress(u)>>
                      /\ Len(msg.html.list) = Cardinality(mine)
                      /\ msg.html.count = Cardinality(mine)
                      /\ \A i \in 1..Len(store.tasks) :
                            Cardinality(Listed(msg.html.list, store.tasks[i].title))
                                = IF i \in mine THEN 1 ELSE 0

\* both users were mailed, one of them a list of two tasks
C6_Witness ==
    \E p \in DOMAIN inv :
        /\ Done(p, "task")
        /\ Cardinality(Delivered(p)) = 2
        /\ \E k \in Sends(p) : calls[p][k].arg.html.count = 2

\* case-insensitive alphabetical order of two titles
LowerCase(c) == IF c >= 65 /\ c <= 90 THEN c + 32 ELSE c

AlphabeticalLeq(a, b) ==
    \/ /\ Len(a) <= Len(b)
       /\ \A k \in 1..Len(a) : LowerCase(a[k]) = LowerCase(b[k])
    \/ \E k \in 1..Len(a) :
          /\ k <= Len(b)
          /\ LowerCase(a[k]) < LowerCase(b[k])
          /\ \A j \in 1..(k - 1) : LowerCase(a[j]) = LowerCase(b[j])

(* C7: in every task reminder email the titles are listed in               *)
(* case-insensitive alphabetical order, whatever order the store returned  *)
(* the rows in.                                                            *)
C7_ListIsAlphabetical ==
    \A p \in DOMAIN inv :
        Running(p, "task") =>
            \A k \in Sends(p) :
                LET list == calls[p][k].arg.html.list
                IN  \A a, b \in 1..Len(list) : a < b => AlphabeticalLeq(list[a], list[b])

\* the store returned "Banana" ahead of "apple"; the email lists apple, Banana
C7_Witness ==
    \E p \in DOMAIN inv :
        /\ Running(p, "task")
        /\ \E a, b \in 1..Len(inv[p].rows) :
              /\ a < b
              /\ inv[p].rows[a].title = TitlePool[1]
              /\ inv[p].rows[b].title = TitlePool[2]
        /\ \E k \in Sends(p) :
              /\ Len(calls[p][k].arg.html.list) >= 2
              /\ calls[p][k].arg.html.list[1] = TitlePool[2]
              /\ calls[p][k].arg.html.list[2] = TitlePool[1]

(* C8: in both jobs an email for a user goes to the profile row's email    *)
(* whenever the row has one; the identity provider is asked only about a   *)
(* user whose profile email is absent, and the address it returns is used  *)
(* only then, for the lookup that the send follows.                        *)
C8_ProfileEmailFirst ==
    \A p \in DOMAIN inv :
        /\ \A k \in Lookups(p) : ~HasProfileEmail(calls[p][k].arg)
        /\ \A k \in Sends(p) :
              LET u == UserOf(p, k)
              IN  IF HasProfileEmail(u)
                  THEN calls[p][k].arg.to = <<ProfileEmail(u)>>
                  ELSE /\ calls[p][k].arg.to = <<AuthEmail(u)>>
                       /\ k - 1 \in Lookups(p)
                       /\ calls[p][k - 1].arg = u
                       /\ calls[p][k - 1].res = "email"

\* one invocation mailed a profile address and, after a lookup, another
\* user's identity-provider address
C8_Witness ==
    \E p \in DOMAIN inv :
        \E j, k \in Sends(p) :
            /\ HasProfileEmail(UserOf(p, j))
            /\ calls[p][j].arg.to = <<ProfileEmail(UserOf(p, j))>>
            /\ ~HasProfileEmail(UserOf(p, k))
            /\ calls[p][k].arg.to = <<AuthEmail(UserOf(p, k))>>

\* the identity provider was asked about u and never gave an address
NoEmailAnywhere(p, u) ==
    /\ ~HasProfileEmail(u)
    /\ \E k \in Lookups(p) : calls[p][k].arg = u
    /\ \A k \in Lookups(p) : calls[p][k].arg = u => calls[p][k].res \in {"none", "error"}

\* the call made for item `for` of the loop, if any
CallFor(p, for) == { k \in Sends(p) \cup Lookups(p) : calls[p][k].for = for }

\* the rows of the habit invocation that other users own
HabitsOfOthers(p, u) == { k \in 1..Len(inv[p].rows) : inv[p].rows[k].user_id # u }

(* C9: if a matched habit's user has no profile email and the identity     *)
(* provider gives none either, the habit job sends that user nothing, goes *)
(* on with the remaining matched habits, and still answers 200 with a sent *)
(* count that leaves that user's habits out.                               *)
C9_UserWithoutEmailIsSkipped ==
    \A p \in DOMAIN inv : \A u \in Users :
        (Done(p, "habit") /\ NoEmailAnywhere(p, u)) =>
            /\ \A k \in Sends(p) : UserOf(p, k) # u
            /\ \A k \in 1..Len(inv[p].rows) : CallFor(p, inv[p].rows[k].id) # {}
            /\ inv[p].response.status = 200
            /\ "sent" \in DOMAIN inv[p].response.body
            /\ inv[p].response.body.sent <= Cardinality(HabitsOfOthers(p, u))

\* a send of the invocation threw
SendFailed(p) == \E k \in Sends(p) : calls[p][k].res = "threw"

\* the items of the loop: habits of the habit job, users of the task job
Items(p) ==
    IF inv[p].job = "habit"
    THEN [k \in 1..Len(inv[p].rows) |-> inv[p].rows[k].id]
    ELSE inv[p].userIds

ItemUser(p, k) ==
    IF inv[p].job = "habit" THEN inv[p].rows[k].user_id ELSE inv[p].userIds[k]

(* C10: in both jobs a send that fails for one recipient is caught and not *)
(* counted in sent, and the batch goes on: a send is attempted for every   *)
(* later habit (habit job) or user (task job) with a resolved email, and   *)
(* the invocation answers 200.                                             *)
C10_FailedSendDoesNotAbort ==
    \A p \in DOMAIN inv :
        (inv[p].pc = "done" /\ SendFailed(p)) =>
            /\ inv[p].response.status = 200
            /\ "sent" \in DOMAIN inv[p].response.body
            /\ inv[p].response.body.sent = Cardinality(Delivered(p))
            /\ \A k \in 1..Len(Items(p)) :
                  HasProfileEmail(ItemUser(p, k)) =>
                      \E j \in Sends(p) : calls[p][j].for = Items(p)[k]

\* the store queries of the two jobs, and the message of the error each
\* hands back when it fails
Queries(p) == CallsOf(p, "habits") \cup CallsOf(p, "tasks") \cup CallsOf(p, "profiles")

ErrorMessage(kind) ==
    IF kind = "habits" THEN "habitsError"
    ELSE IF kind = "tasks" THEN "tasksError"
    ELSE "profilesError"

(* C11: in both jobs, when the habits query, the tasks query or the        *)
(* profiles query returns an error, the invocation ends there with status  *)
(* 500 and the error's message in the body, and it has sent no email.      *)
C11_QueryErrorAborts ==
    \A p \in DOMAIN inv :
        \A k \in Queries(p) :
            calls[p][k].res = "error" =>
                /\ inv[p].pc = "done"
                /\ k = Len(calls[p])
                /\ inv[p].response.status = 500
                /\ inv[p].response.body = [error |-> ErrorMessage(calls[p][k].kind)]
                /\ Sends(p) = {}

\* the task job's profiles query failed after its tasks query gave rows
C11_Witness ==
    \E p \in DOMAIN inv :
        /\ Done(p, "task")
        /\ \E j \in CallsOf(p, "tasks") : calls[p][j].res = "data"
        /\ \E k \in CallsOf(p, "profiles") : calls[p][k].res = "error"

\* a request other than OPTIONS that finds a secret missing
LacksSecret(p) ==
    /\ inv[p].pc # "idle"
    /\ inv[p].method # "OPTIONS"
    /\ (~inv[p].serviceKey \/ ~inv[p].resendKey)

(* C12: in both jobs, a request other than OPTIONS that finds the          *)
(* service-role key or the email API key missing is answered 500 with an   *)
(* error body, and no store query, identity lookup or email send is made.  *)
C12_MissingSecretStopsFirst ==
    \A p \in DOMAIN inv :
        LacksSecret(p) =>
            /\ inv[p].pc = "done"
            /\ inv[p].response.status = 500
            /\ inv[p].response.body = [error |-> MissingSecrets]
            /\ calls[p] = <<>>

\* the habit job was asked with the service-role key set and the email API
\* key missing
C12_Witness ==
    \E p \in DOMAIN inv :
        /\ Done(p, "habit")
        /\ LacksSecret(p)
        /\ inv[p].serviceKey /\ ~inv[p].resendKey

\* the request was a POST that found both secrets
Proceeded(p) ==
    /\ inv[p].pc # "idle"
    /\ inv[p].method = "POST"
    /\ inv[p].serviceKey /\ inv[p].resendKey

\* every call the invocation made gave what it was asked for
AllSucceeded(p) ==
    \A k \in 1..Len(calls[p]) : calls[p][k].res \in {"data", "email", "ok"}

\* the email sent and delivered for habit i by invocation p
DeliveredFor(p, i) == { k \in Delivered(p) : calls[p][k].for = i }

(* C13: two invocations of the habit job, one after the other or           *)
(* overlapping, that read the same reference minute and whose calls all    *)
(* succeed each send an email for every habit due in that minute, to the   *)
(* same recipient: two emails for the same habit, no deduplication.        *)
C13_SameMinuteSendsTwice ==
    \A p, q \in DOMAIN inv :
        ( /\ p # q
          /\ Done(p, "habit") /\ Proceeded(p) /\ AllSucceeded(p)
          /\ Done(q, "habit") /\ Proceeded(q) /\ AllSucceeded(q)
          /\ inv[p].now \div 60 = inv[q].now \div 60 )
        => \A i \in DueHabits(inv[p].now) :
              \E j \in DeliveredFor(p, i), k \in DeliveredFor(q, i) :
                  calls[p][j].arg.to = calls[q][k].arg.to

\* invocations at 14:00:00 and 14:00:30 each delivered both due habits
C13_Witness ==
    \E p, q \in DOMAIN inv :
        /\ Done(p, "habit") /\ Done(q, "habit")
        /\ inv[p].now # inv[q].now
        /\ inv[p].now \div 60 = inv[q].now \div 60
        /\ Cardinality(Delivered(p)) = 2
        /\ Cardinality(Delivered(q)) = 2

\* two invocations in the same reference hour of the same day
SameHour(a, b) == RefDay(a) = RefDay(b) /\ RefHour(a) = RefHour(b)

\* user u was delivered a task reminder by both invocations
MailedTwice(p, q, u) ==
    /\ \E j \in Delivered(p) : calls[p][j].for = u
    /\ \E k \in Delivered(q) : calls[q][k].for = u

MinuteWasRead(i) ==
    \E p \in DOMAIN inv :
        /\ Running(p, "habit")
        /\ store.habits[i].notify_time = <<RefHour(inv[p].now), RefMinute(inv[p].now), 0>>

(* C15: a habit whose notify_time no invocation of the habit job read as   *)
(* its current minute (the minute was skipped, or the run came after the   *)
(* minute boundary) has no reminder sent for it by any invocation.         *)
C15_NoCatchUp ==
    \A i \in 1..Len(store.habits) :
        ~MinuteWasRead(i) =>
            \A p \in DOMAIN inv :
                Running(p, "habit") => \A k \in Sends(p) : calls[p][k].for # i

\* both invocations ran at 14:01 and went through: the habits of 14:00 are
\* not mailed
C15_Witness ==
    /\ \A p \in DOMAIN inv :
          /\ Done(p, "habit") /\ Proceeded(p)
          /\ RefMinute(inv[p].now) = 1
          /\ inv[p].response.status = 200
    /\ \E i \in 1..Len(store.habits) :
          /\ store.habits[i].active
          /\ store.habits[i].notify_time = TimeOfDay(14, 0, 0)

\* the minute of the UTC day an instant falls in, and its UTC calendar day
UtcMinuteOfDay(now) == (now \div 60) % 1440
UtcDate(now) == now \div 86400

\* the claimed reference hour, minute and date of an instant
ClaimedHour(now) == ((UtcMinuteOfDay(now) + 330) % 1440) \div 60
ClaimedMinute(now) == (UtcMinuteOfDay(now) + 330) % 60
ClaimedDate(now) == UtcDate(now) + (IF UtcMinuteOfDay(now) >= 1110 THEN 1 ELSE 0)

\* n as two decimal digits, and the literal HH:MM:00
TwoDigits(n) == <<48 + (n \div 10), 48 + (n % 10)>>
MinuteLiteral(h, m) == TwoDigits(h) \o <<58>> \o TwoDigits(m) \o <<58, 48, 48>>

(* C19: at every minute u of the UTC day, at its first and its last        *)
(* second, the habit job asks for ((u+330) mod 1440) div 60 :              *)
(* (u+330) mod 60 : 00 and the task job reads the same hour and minute;    *)
(* the task job's date is the UTC date plus one day exactly when           *)
(* u >= 1110, and whenever the task job passes its guard and queries, the  *)
(* date it asks for is the UTC date.                                       *)
C19_ReferenceClock ==
    \A p \in DOMAIN inv :
        inv[p].pc # "idle" =>
          LET now == inv[p].now
          IN  /\ CurrentMinute(now) = MinuteLiteral(ClaimedHour(now), ClaimedMinute(now))
              /\ HourLabel(now) = TwoDigits(ClaimedHour(now))
              /\ DateStr(now) = ClaimedDate(now)
              /\ \A k \in CallsOf(p, "habits") :
                    calls[p][k].arg = MinuteLiteral(ClaimedHour(now), ClaimedMinute(now))
              /\ Skipped(p) =>
                    /\ inv[p].response.body.istHour = ClaimedHour(now)
                    /\ inv[p].response.body.istMinute = ClaimedMinute(now)
              /\ \A k \in CallsOf(p, "tasks") :
                    /\ calls[p][k].arg = ClaimedDate(now)
                    /\ calls[p][k].arg = UtcDate(now)
                    /\ ClaimedMinute(now) = 0
              /\ (Done(p, "task") /\ "hour" \in DOMAIN inv[p].response.body) =>
                    /\ inv[p].response.body.hour = TwoDigits(ClaimedHour(now))
                    /\ inv[p].response.body.date = UtcDate(now)

\* the habit job asked for 00:29:00 at the last second of UTC 18:59, where
\* the reference day has turned
C19_Witness ==
    \E p \in DOMAIN inv :
        /\ Running(p, "habit")
        /\ CallsOf(p, "habits") # {}
        /\ UtcMinuteOfDay(inv[p].now) = 1139
        /\ inv[p].now % 60 = 59
        /\ calls[p][1].arg = MinuteLiteral(0, 29)

\* the lookups of a habit invocation that came back with r
LookupsWith(p, r) == { k \in Lookups(p) : calls[p][k].res = r }

(* C20 as claimed: in the habit job every error of the identity lookup,    *)
(* an error value or an exception, ends the invocation with a failure      *)
(* result that carries the error message.                                  *)
C20_LookupErrorAborts ==
    \A p \in DOMAIN inv :
        Running(p, "habit") =>
            \A k \in LookupsWith(p, "error") \cup LookupsWith(p, "threw") :
                /\ inv[p].pc = "done"
                /\ k = Len(calls[p])
                /\ inv[p].response.status = 500
                /\ "error" \in DOMAIN inv[p].response.body

(* C20 amended: in the habit job an exception raised by the identity       *)
(* lookup ends the invocation with status 500 and the error message; an    *)
(* error value is only logged: no email is sent for that habit and the     *)
(* loop goes on to the next habit, or to the 200 response after the last.  *)
C20_LookupThrowAbortsErrorValueSkips ==
    \A p \in DOMAIN inv :
        Running(p, "habit") =>
            /\ \A k \in LookupsWith(p, "threw") :
                  /\ inv[p].pc = "done"
                  /\ k = Len(calls[p])
                  /\ inv[p].response.status = 500
                  /\ inv[p].response.body = [error |-> "getUserById threw"]
            /\ \A k \in LookupsWith(p, "error") :
                  /\ \A j \in Sends(p) : calls[p][j].for # calls[p][k].for
                  /\ IF k = Len(calls[p])
                     THEN /\ inv[p].pc = "done"
                          /\ inv[p].response.status = 200
                          /\ inv[p].i = Len(inv[p].rows) + 1
                     ELSE /\ calls[p][k + 1].kind \in {"getUserById", "send"}
                          /\ calls[p][k + 1].for \in DueHabits(inv[p].now)
                          /\ calls[p][k + 1].for # calls[p][k].for

\* a lookup gave an error value, a later habit was mailed, the answer is 200
C20_Witness ==
    \E p \in DOMAIN inv :
        /\ Done(p, "habit")
        /\ inv[p].response.status = 200
        /\ \E k \in LookupsWith(p, "error") : \E j \in Delivered(p) : j > k

\* the requests of the day that delivered an email for habit i
MailersOf(i) == { p \in DOMAIN inv : DeliveredFor(p, i) # {} }

\* the scheduler has gone through every minute of reference day 1, one
\* request of the habit job in each, and the last request went well too
DayOver ==
    /\ \A t \in sched : RefDay(t) = 1 /\ RefMinuteOfDay(t) = 1439
    /\ \A p \in DOMAIN inv :
          /\ inv[p].job = "habit"
          /\ RefDay(inv[p].now) = 1
          /\ WentWell(inv[p], calls[p])

\* the owner's address can be had: from the profile row, or from the
\* identity provider, which gave it to a request of the day
Resolvable(u) ==
    \/ HasProfileEmail(u)
    \/ \E p \in DOMAIN inv : \E k \in Lookups(p) :
          calls[p][k].arg = u /\ calls[p][k].res = "email"

WholeMinute(t) == t # NoTime /\ t[3] = 0

(* C18: when the habit job has been invoked exactly once in every minute   *)
(* of a reference day and every call succeeded, each active habit with a   *)
(* whole-minute notify_time whose owner's email can be resolved has had    *)
(* exactly one email delivered that day, by the request whose current      *)
(* minute is the habit's notify_time.                                      *)
C18_OncePerMinuteMailsOncePerDay ==
    DayOver =>
        \A i \in 1..Len(store.habits) :
            LET h == store.habits[i]
            IN  (h.active /\ WholeMinute(h.notify_time) /\ Resolvable(h.user_id)) =>
                    \E p \in DOMAIN inv :
                        /\ MailersOf(i) = {p}
                        /\ Cardinality(DeliveredFor(p, i)) = 1
                        /\ <<RefHour(inv[p].now), RefMinute(inv[p].now), 0>> = h.notify_time
                        /\ \A q \in DOMAIN inv : \A k \in Sends(q) :
                              calls[q][k].for = i => q = p

\* the day is over; the 14:00 habit was mailed at the identity provider's
\* address and the 14:01 habit at the profile's, by different requests
C18_Witness ==
    /\ DayOver
    /\ \E p, q \in DOMAIN inv :
          /\ p # q
          /\ \E k \in DeliveredFor(p, 1) : calls[p][k].arg.to = <<AuthEmail("u1")>>
          /\ \E k \in DeliveredFor(q, 2) : calls[q][k].arg.to = <<ProfileEmail("u2")>>

(* C16: a client session of user A never gets from a select, and never     *)
(* inserts, updates or deletes, a row of profiles, habits, habit_entries,  *)
(* weight_entries, sleep_logs, workouts or journal_entries that another    *)
(* user owns; B's profile row with its email is one such row.              *)
C16_NoCrossUserAccess ==
    calls.op \in {"select", "insert", "update", "delete"} =>
        \A r \in calls.rows : OwnerOf(calls.table, r) = calls.session

(* C17: no table holds a row whose owner is not in auth.users: when a     *)
(* user is deleted, every row the user owned in profiles, habits,          *)
(* habit_entries, weight_entries, sleep_logs, workouts and                 *)
(* journal_entries is deleted with it.                                     *)
C17_NoRowOutlivesItsUser ==
    \A t \in Tables : \A r \in store[t] : OwnerOf(t, r) \in store.users

----------------------------------------------------------------------------
(* Both jobs, user by user *)

\* what an invocation did with the user once lookup k had returned: mailed
\* the address it gave, gave the user up, or gave the whole invocation up
DecisionAfter(p, k) ==
    IF k < Len(calls[p]) /\ calls[p][k + 1].kind = "send"
                         /\ UserOf(p, k + 1) = calls[p][k].arg
    THEN <<"send", calls[p][k + 1].arg.to>>
    ELSE IF k = Len(calls[p]) /\ inv[p].pc = "done" /\ inv[p].response.status = 500
    THEN <<"abort">>
    ELSE <<"skip">>

\* the sends of invocation p for user u
SendsTo(p, u) == { k \in Sends(p) : UserOf(p, k) = u }

(* C21 as claimed: the task job resolves a user's email as the habit job   *)
(* does.  With a profile email both send to it; without one, whatever the  *)
(* identity lookup gives (an email, none, an error value, an exception),   *)
(* both reach the same decision: the same address, skip the user, or end   *)
(* the invocation.                                                         *)
C21_SameResolution ==
    \A p, q \in DOMAIN inv :
        (Running(p, "habit") /\ Running(q, "task")) =>
            /\ \A u \in Users :
                  HasProfileEmail(u) =>
                      \A j \in SendsTo(p, u), k \in SendsTo(q, u) :
                          calls[p][j].arg.to = calls[q][k].arg.to
            /\ \A j \in Lookups(p), k \in Lookups(q) :
                  ( /\ calls[p][j].arg = calls[q][k].arg
                    /\ calls[p][j].res = calls[q][k].res
                    /\ calls[p][j].res # "pending" )
                  => DecisionAfter(p, j) = DecisionAfter(q, k)

\* what the request and the environment hand to the handler
Inputs(p) ==
    <<inv[p].job, inv[p].now, inv[p].method, inv[p].serviceKey, inv[p].resendKey>>

\* what the collaborators answered to the calls of the invocation, in order
Answers(p) == [k \in 1..Len(calls[p]) |-> calls[p][k].res]

(* C22: neither job writes to the store and neither keeps anything from    *)
(* one invocation to the next.  The store is what it was before the first  *)
(* invocation, and two invocations of a job, one after the other in the    *)
(* same slot or side by side, that are given the same request at the same  *)
(* instant, the same rows and the same answers have issued the same calls  *)
(* (the same emails) and hold the same state and response.                 *)
C22_NoWritesNoMemory ==
    /\ store = TwiceStore
    /\ \A p, q \in DOMAIN inv :
          ( /\ inv[p].pc # "idle" /\ inv[q].pc # "idle"
            /\ Inputs(p) = Inputs(q)
            /\ inv[p].rows = inv[q].rows
            /\ Answers(p) = Answers(q) )
          => /\ calls[p] = calls[q]
             /\ inv[p] = inv[q]

\* two completed habit invocations of the same instant, same answers, each
\* of which delivered an email after a lookup failed
C22_Witness ==
    \E p, q \in DOMAIN inv :
        /\ p # q
        /\ Done(p, "habit") /\ Done(q, "habit")
        /\ Inputs(p) = Inputs(q)
        /\ Answers(p) = Answers(q)
        /\ LookupsWith(p, "error") # {}
        /\ Delivered(p) # {}
        /\ inv[p].response = inv[q].response
        /\ store = TwiceStore

\* the owners of the tasks pending on the invocation's reference day
PendingOwners(now) == { store.tasks[i].user_id : i \in PendingTasks(now) }

\* a completed POST that answered 200 and was not skipped by the guards
Completed200(p, job) ==
    /\ Done(p, job) /\ Proceeded(p)
    /\ inv[p].response.status = 200
    /\ ~Skipped(p)

\* the counts the habit job is claimed to report
HabitCounts(p) ==
    LET body == inv[p].response.body
    IN  /\ {"sent", "habitsChecked"} \subseteq DOMAIN body
        /\ body.habitsChecked = Cardinality(DueHabits(inv[p].now))
        /\ 0 <= body.sent /\ body.sent <= body.habitsChecked
        /\ body.sent = Cardinality(Delivered(p))

\* the counts the task job is claimed to report
TaskCounts(p) ==
    LET body == inv[p].response.body
    IN  /\ {"sent", "usersConsidered", "pendingTasks"} \subseteq DOMAIN body
        /\ body.usersConsidered = Cardinality(PendingOwners(inv[p].now))
        /\ body.pendingTasks = Cardinality(PendingTasks(inv[p].now))
        /\ 0 <= body.sent /\ body.sent <= body.usersConsidered
        /\ body.usersConsidered <= body.pendingTasks
        /\ body.sent = Cardinality(Delivered(p))

(* C23 as claimed: on every status-200, non-skipped completion the habit   *)
(* job reports habitsChecked = the number of matched habits and            *)
(* 0 <= sent <= habitsChecked, the task job reports usersConsidered = the  *)
(* number of distinct owners of pending tasks, pendingTasks = the number   *)
(* of pending tasks and 0 <= sent <= usersConsidered <= pendingTasks, and  *)
(* sent is the number of sends that succeeded.                             *)
C23_CountsOnEvery200 ==
    \A p \in DOMAIN inv :
        /\ Completed200(p, "habit") => HabitCounts(p)
        /\ Completed200(p, "task") => TaskCounts(p)

(* C23 amended: the counts are reported, as claimed, by the status-200     *)
(* completions that found at least one due record.  When none is due the   *)
(* habit job answers {sent: 0, at} without habitsChecked and the task job  *)
(* answers {sent: 0, users: 0, date, hour, note} with neither              *)
(* usersConsidered nor pendingTasks.                                       *)
C23_CountsWhenSomethingIsDue ==
    \A p \in DOMAIN inv :
        /\ Completed200(p, "habit") =>
              IF DueHabits(inv[p].now) # {}
              THEN HabitCounts(p)
              ELSE /\ DOMAIN inv[p].response.body = {"sent", "at"}
                   /\ inv[p].response.body.sent = 0
                   /\ Sends(p) = {}
        /\ Completed200(p, "task") =>
              IF PendingTasks(inv[p].now) # {}
              THEN TaskCounts(p)
              ELSE /\ DOMAIN inv[p].response.body =
                          {"sent", "users", "date", "hour", "note"}
                   /\ inv[p].response.body.sent = 0
                   /\ inv[p].response.body.users = 0
                   /\ Sends(p) = {}

\* a habit invocation that matched three habits, delivered one email and
\* had one send fail
C23_Witness ==
    \E p \in DOMAIN inv :
        /\ Completed200(p, "habit")
        /\ Cardinality(DueHabits(inv[p].now)) = 3
        /\ inv[p].response.body.sent = 1
        /\ SendFailed(p)

\* the due-record queries of the invocation: habits or tasks
DueQueries(p) == CallsOf(p, "habits") \cup CallsOf(p, "tasks")

\* nothing is due for the invocation: no matched habit, no pending task
NothingDue(p) ==
    IF inv[p].job = "habit"
    THEN DueHabits(inv[p].now) = {}
    ELSE PendingTasks(inv[p].now) = {}

(* C24: when the due-record query (matched habits, pending tasks) returns  *)
(* no rows, the job answers 200 with sent = 0 and ends there: it has not   *)
(* queried profiles, called the identity provider or sent an email.        *)
C24_NothingDueEndsEarly ==
    \A p \in DOMAIN inv :
        \A k \in DueQueries(p) :
            (calls[p][k].res = "data" /\ NothingDue(p)) =>
                /\ inv[p].pc = "done"
                /\ inv[p].response.status = 200
                /\ inv[p].response.body.sent = 0
                /\ Len(calls[p]) = 1
                /\ CallsOf(p, "profiles") = {}
                /\ Lookups(p) = {}
                /\ Sends(p) = {}

\* the task job passed its guards and found no pending task for today,
\* though the table holds tasks
C24_Witness ==
    \E p \in DOMAIN inv :
        /\ Done(p, "task")
        /\ \E k \in CallsOf(p, "tasks") : calls[p][k].res = "data"
        /\ PendingTasks(inv[p].now) = {}
        /\ \E i \in 1..Len(store.tasks) : ~store.tasks[i].completed
        /\ inv[p].response.body.sent = 0

(* C27 as claimed: an invocation of either job that answers with an error  *)
(* (status 500) has sent no email; every invocation that sent at least one *)
(* email answers 200 and reports a sent count.                             *)
C27_ErrorMeansNothingSent ==
    \A p \in DOMAIN inv :
        inv[p].pc = "done" =>
            /\ inv[p].response.status = 500 => Delivered(p) = {}
            /\ Delivered(p) # {} =>
                  /\ inv[p].response.status = 200
                  /\ "sent" \in DOMAIN inv[p].response.body

\* the entry's habit exists and belongs to the entry's user
OwnHabit(st, e) == \E h \in st.habits : h.id = e.habit_id /\ h.user_id = e.user_id

\* another entry already holds the habit and date of e
Duplicates(st, e) ==
    \E o \in st.habit_entries :
        o.id # e.id /\ o.habit_id = e.habit_id /\ o.date = e.date

(* C25: after any inserts, updates and deletes of non-elevated users on    *)
(* habits and habit_entries, every entry refers to a habit of the entry's  *)
(* own user and no two entries share (habit_id, date); an insert or update *)
(* that would break either is refused and the table is left as it was.     *)
C25_EntriesBelongAndAreUnique ==
    /\ \A e \in store.habit_entries :
          /\ OwnHabit(store, e)
          /\ ~Duplicates(store, e)
    /\ \A r \in calls.offered :
          (calls.table = "habit_entries" /\ (~OwnHabit(store, r) \/ Duplicates(store, r)))
          => /\ calls.rows = {}
             /\ r \notin store.habit_entries
    /\ \A r \in calls.rows :
          (calls.table = "habit_entries" /\ calls.op \in {"insert", "update"})
          => OwnHabit(store, r) /\ ~Duplicates(store, r)

\* a user with an entry for a habit and a day was refused a second entry of
\* their own for the same habit and day
C25_Witness ==
    /\ calls.table = "habit_entries"
    /\ calls.op = "insert"
    /\ \E r \in calls.offered :
          /\ r.user_id = calls.session
          /\ OwnHabit(store, r)
          /\ Duplicates(store, r)
          /\ r \notin store.habit_entries

----------------------------------------------------------------------------
(* SleepTracker: the duration of a sleep log (src/unnamed/part_002)        *)

\* the value of an input that has not been filled in: ""
NoText == <<>>

\* the value of <input type="time">: "HH:MM"
TimeText(h, m) == PadStart2(h) \o <<58>> \o PadStart2(m)

TimeTexts == { TimeText(h, m) : h \in 0..23, m \in 0..59 }

\* the times on the hour, on the half hour and a minute before the hour
SampleTexts == { TimeText(h, m) : h \in 0..23, m \in {0, 30, 59} }

\* t.split(":")
RECURSIVE Split(_)
Split(t) ==
    IF \E k \in 1..Len(t) : t[k] = 58
    THEN LET k == CHOOSE j \in 1..Len(t) :
                     t[j] = 58 /\ \A i \in 1..(j - 1) : t[i] # 58
         IN  <<SubSeq(t, 1, k - 1)>> \o Split(SubSeq(t, k + 1, Len(t)))
    ELSE <<t>>

\* Number(s) for a string of decimal digits
RECURSIVE Number(_)
Number(s) ==
    IF s = <<>> THEN 0
    ELSE Number(SubSeq(s, 1, Len(s) - 1)) * 10 + (s[Len(s)] - 48)

\* lines 73-76
parseTimeToMinutes(t) ==
    LET hm == [k \in 1..Len(Split(t)) |-> Number(Split(t)[k])]
    IN  hm[1] * 60 + hm[2]

\* the difference taken as it is, midnight not handled
computeDurationMinutes_NoMidnight(start, end) ==
    IF start = NoText \/ end = NoText THEN 0
    ELSE parseTimeToMinutes(end) - parseTimeToMinutes(start)

\* lines 78-85
computeDurationMinutes(start, end) ==
    IF start = NoText \/ end = NoText THEN 0
    ELSE LET startMin == parseTimeToMinutes(start)
             endMin == parseTimeToMinutes(end)
         IN  IF endMin >= startMin THEN endMin - startMin
             ELSE 24 * 60 - startMin + endMin

\* the dialog's fields and the component's list of logs, newest first
SleepForm(date, startTime, endTime, logs) ==
    [date |-> date, startTime |-> startTime, endTime |-> endTime, logs |-> logs]

InsertResults == {"ok", "error"}

\* lines 87-125: addLog
addLog ==
    LET f == inv
    IN  IF f.date = NoText \/ f.startTime = NoText \/ f.endTime = NoText
        THEN UNCHANGED vars
        ELSE \E res \in InsertResults :
               LET row == [id |-> FreshId(store.sleep_logs), user_id |-> "u1",
                           date |-> f.date, start_time |-> f.startTime,
                           end_time |-> f.endTime,
                           duration_minutes |->
                               computeDurationMinutes(f.startTime, f.endTime)]
               IN  /\ calls' = res
                   /\ sched' = sched
                   /\ IF res = "error"
                      THEN UNCHANGED <<store, inv>>
                      ELSE /\ store' = [store EXCEPT !.sleep_logs = @ \cup {row}]
                           /\ inv' = SleepForm(NoText, NoText, NoText, <<row>> \o f.logs)

\* the dialog with a date, any start time and an end time of the sample,
\* one of them possibly left out
InitSleep ==
    /\ store = [sleep_logs |-> {}]
    /\ sched = {}
    /\ \E startTime \in TimeTexts \cup {NoText}, endTime \in SampleTexts \cup {NoText} :
          inv = SleepForm(<<1>>, startTime, endTime, <<>>)
    /\ calls = "none"

NextSleep == addLog

SpecSleep == InitSleep /\ [][NextSleep]_vars

\* the minute of the day an HH:MM text stands for
MinuteOfDay(t) ==
    ((t[1] - 48) * 10 + (t[2] - 48)) * 60 + ((t[4] - 48) * 10 + (t[5] - 48))

(* C30: for start and end times HH:MM, computeDurationMinutes returns      *)
(* (endMinutes - startMinutes) mod 1440: the plain difference when         *)
(* end >= start, the duration across midnight when end < start; the result *)
(* is in 0..1439 and equal times give 0.                                   *)
C30_DurationIsDifferenceMod1440 ==
    \A row \in store.sleep_logs :
        LET startMinutes == MinuteOfDay(row.start_time)
            endMinutes == MinuteOfDay(row.end_time)
        IN  /\ row.duration_minutes = (endMinutes - startMinutes) % 1440
            /\ row.duration_minutes \in 0..1439
            /\ endMinutes >= startMinutes =>
                  row.duration_minutes = endMinutes - startMinutes
            /\ endMinutes < startMinutes =>
                  row.duration_minutes = (1440 - startMinutes) + endMinutes
            /\ row.start_time = row.end_time => row.duration_minutes = 0

\* a night from 23:15 to 06:30 was logged as 435 minutes
C30_Witness ==
    \E row \in store.sleep_logs :
        /\ row.start_time = TimeText(23, 15)
        /\ row.end_time = TimeText(6, 30)
        /\ row.duration_minutes = 435
        /\ Len(inv.logs) = 1

----------------------------------------------------------------------------
(* TaskTracker: toggling a task (src/unnamed/part_002, lines 497-576).     *)
(* The component of user u1 holds a list of its tasks in React state; a    *)
(* toggle awaits an update of the store and then flips the listed task.    *)
(* Here inv is the component's task list and calls the update requests it  *)
(* has issued, each on its way, applied by the store, or returned.         *)

\* toggleTaskCompletion calls on record
MaxToggles == 3

\* lines 497-520: fetchTasks, the rows of the user as the component lists them
FetchedTasks(tasks, userId) ==
    [i \in { j \in 1..Len(tasks) : tasks[j].user_id = userId } |-> tasks[i].completed]

UpdateResults == {"ok", "error"}

\* lines 561-568: the call reads the task from the list it was rendered
\* with and sends update({ completed: !task.completed }).eq("id", taskId)
toggleTaskCompletion(taskId) ==
    /\ Len(calls) < MaxToggles
    /\ IF taskId \notin DOMAIN inv
       THEN UNCHANGED vars
       ELSE /\ calls' = Append(calls, [taskId |-> taskId, completed |-> ~inv[taskId],
                                       pc |-> "sent", res |-> "pending"])
            /\ UNCHANGED <<store, sched, inv>>

\* the store runs the update of request k, or refuses it
UpdateApplied(k) ==
    /\ calls[k].pc = "sent"
    /\ \E res \in UpdateResults :
         /\ calls' = [calls EXCEPT ![k].pc = "applied", ![k].res = res]
         /\ store' = IF res = "ok"
                     THEN [store EXCEPT !.tasks[calls[k].taskId].completed =
                                            calls[k].completed]
                     ELSE store
    /\ UNCHANGED <<sched, inv>>

\* lines 570-575: the await of request k resumes; on success
\* setTasks(prev => prev.map(t => t.id === taskId ? {...t, completed: !t.completed} : t))
UpdateReturned(k) ==
    /\ calls[k].pc = "applied"
    /\ calls' = [calls EXCEPT ![k].pc = "returned"]
    /\ inv' = IF calls[k].res = "ok"
              THEN [inv EXCEPT ![calls[k].taskId] = ~@]
              ELSE inv
    /\ UNCHANGED <<store, sched>>

\* the component has loaded the tasks of u1
InitToggle ==
    /\ \E tasks \in TaskTables : store = [tasks |-> tasks]
    /\ sched = {}
    /\ inv = FetchedTasks(store.tasks, "u1")
    /\ calls = <<>>

NextToggle ==
    \/ \E taskId \in 1..NTasks : toggleTaskCompletion(taskId)
    \/ \E k \in DOMAIN calls : UpdateApplied(k)
    \/ \E k \in DOMAIN calls : UpdateReturned(k)

SpecToggle == InitToggle /\ [][NextToggle]_vars

\* the toggle requests for the task
TogglesOf(taskId) == { k \in DOMAIN calls : calls[k].taskId = taskId }

(* C28 as claimed: after any toggleTaskCompletion calls on a task whose    *)
(* store updates all succeed, calls issued before an earlier one has       *)
(* completed included, the completed flag in the client's list equals the  *)
(* completed flag the store holds for the task.                            *)
C28_ListAgreesWithStore ==
    \A taskId \in DOMAIN inv :
        ( /\ TogglesOf(taskId) # {}
          /\ \A k \in TogglesOf(taskId) :
                calls[k].pc = "returned" /\ calls[k].res = "ok" )
        => inv[taskId] = store.tasks[taskId].completed

----------------------------------------------------------------------------
(* JournalTracker: autosave of the day's page (src/unnamed/part_000, the   *)
(* same code as src/src/components/JournalTracker.tsx).  The component of  *)
(* user u1 shows one date.  Here sched is the browser's clock and its      *)
(* pending timeouts, inv the component (editor content, saveTimer ref,     *)
(* entry), calls the persist calls with the upsert each one awaits, and    *)
(* store.journal_entries the table with its unique index on                *)
(* (user_id, date).  Time is in milliseconds and advances in steps of half *)
(* the autosave delay; a timeout runs at the instant it is due, before     *)
(* anything else that happens at that instant.                             *)

\* setTimeout(() => void persist(), 800)
AutosaveDelay == 800

Quantum == AutosaveDelay \div 2

\* clock steps
MaxTicks == 5
\* editor updates
MaxUpdates == 2
\* persist calls on record before "Save now" is no longer pressed
MaxSaves == 2

\* the date the component shows (the other one is 1)
ShownDate == 0

NoTimer == 0
NoEntry == <<>>

\* the pages the table may hold when the component is opened, at most one
\* per user and date and written earlier (content 0): none, the user's page
\* of another date and another user's page, or these and the page shown
JournalTables ==
    { { [id |-> (IF k[1] = "u1" THEN 1 ELSE 3) + k[2], user_id |-> k[1],
         date |-> k[2], content |-> 0] : k \in ks } :
        ks \in { {}, {<<"u1", 1>>, <<"u2", 0>>},
                 {<<"u1", 0>>, <<"u1", 1>>, <<"u2", 0>>} } }

\* the timeouts left when no pending one is cleared first
scheduleSave_NoClear(timers, current, handle, now) ==
    timers \cup {[handle |-> handle, due |-> now + AutosaveDelay]}

\* lines 89-93: clearTimeout(saveTimer.current), then a new timeout
scheduleSave(timers, current, handle, now) ==
    { t \in timers : t.handle # current }
        \cup {[handle |-> handle, due |-> now + AutosaveDelay]}

\* a timeout is due and has not run yet
TimerDue == \E t \in sched.timers : t.due <= sched.now

\* line 81, onUpdate: the editor's content has changed (each update gives
\* a content of its own) and the save is scheduled
EditorUpdate ==
    /\ ~TimerDue
    /\ Len(inv.updates) < MaxUpdates
    /\ LET handle == Len(inv.updates) + 1
       IN  /\ sched' = [sched EXCEPT
                          !.timers = scheduleSave(@, inv.saveTimer, handle, sched.now)]
           /\ inv' = [inv EXCEPT !.content = @ + 1, !.saveTimer = handle,
                                 !.updates = Append(@, sched.now)]
    /\ UNCHANGED <<store, calls>>

\* lines 112-132: persist up to the awaited upsert, which carries the
\* editor's content of that moment
PersistCall(by) ==
    [by |-> by, at |-> sched.now, content |-> inv.content,
     pc |-> "sent", res |-> "pending", order |-> 0]

\* the timeout runs: () => void persist()
TimerFires ==
    /\ \E t \in sched.timers :
         /\ t.due <= sched.now
         /\ sched' = [sched EXCEPT !.timers = @ \ {t}]
    /\ calls' = Append(calls, PersistCall("timer"))
    /\ UNCHANGED <<store, inv>>

\* the menu item "Save now": onClick={() => void persist()}
SaveNow ==
    /\ ~TimerDue
    /\ Len(calls) < MaxSaves
    /\ calls' = Append(calls, PersistCall("menu"))
    /\ UNCHANGED <<store, sched, inv>>

\* every row is inserted, whatever the table holds
Upsert_PlainInsert(rows, user, date, content) ==
    rows \cup {[id |-> FreshId(rows), user_id |-> user, date |-> date,
                content |-> content]}

\* upsert(..., { onConflict: "user_id,date" }) on the unique index
\* journal_entries_unique_user_date
Upsert(rows, user, date, content) ==
    IF \E o \in rows : o.user_id = user /\ o.date = date
    THEN { IF o.user_id = user /\ o.date = date
           THEN [o EXCEPT !.content = content] ELSE o : o \in rows }
    ELSE rows \cup {[id |-> FreshId(rows), user_id |-> user, date |-> date,
                     content |-> content]}

JournalResults == {"ok", "error"}

\* the store runs the upsert of persist call k, or fails it
UpsertApplied(k) ==
    /\ calls[k].pc = "sent"
    /\ \E res \in JournalResults :
         /\ calls' = [calls EXCEPT ![k].pc = "applied", ![k].res = res,
                        ![k].order = 1 + Cardinality({ j \in DOMAIN calls :
                                                         calls[j].pc # "sent" })]
         /\ store' = IF res = "ok"
                     THEN [store EXCEPT !.journal_entries =
                               Upsert(@, "u1", ShownDate, calls[k].content)]
                     ELSE store
    /\ UNCHANGED <<sched, inv>>

\* lines 134-150: the await of persist call k resumes: setEntry(data), or
\* the toast "Autosave failed"
PersistReturned(k) ==
    /\ calls[k].pc = "applied"
    /\ calls' = [calls EXCEPT ![k].pc = "returned"]
    /\ inv' = IF calls[k].res = "ok"
              THEN [inv EXCEPT !.entry = <<calls[k].content>>]
              ELSE inv
    /\ UNCHANGED <<store, sched>>

\* time passes, once the timeouts due have run
Tick ==
    /\ ~TimerDue
    /\ sched.now < sched.end
    /\ sched' = [sched EXCEPT !.now = @ + Quantum]
    /\ UNCHANGED <<store, inv, calls>>

\* the component has loaded the page of the date it shows; it is followed
\* for the time one autosave takes to come due
InitJournal ==
    /\ \E rows \in JournalTables : store = [journal_entries |-> rows]
    /\ sched = [now |-> 0, end |-> AutosaveDelay, timers |-> {}]
    /\ inv = [content |-> 0, saveTimer |-> NoTimer, updates |-> <<>>,
              entry |-> IF \E o \in store.journal_entries :
                              o.user_id = "u1" /\ o.date = ShownDate
                        THEN <<0>> ELSE NoEntry]
    /\ calls = <<>>

NextJournal ==
    \/ EditorUpdate
    \/ TimerFires
    \/ SaveNow
    \/ \E k \in DOMAIN calls : UpsertApplied(k)
    \/ \E k \in DOMAIN calls : PersistReturned(k)
    \/ Tick

SpecJournal == InitJournal /\ [][NextJournal]_vars

\* the editor, the clock and the persist calls alone, on an empty table and
\* for MaxTicks steps of the clock
InitAutosave ==
    /\ store = [journal_entries |-> {}]
    /\ sched = [now |-> 0, end |-> MaxTicks * Quantum, timers |-> {}]
    /\ inv = [content |-> 0, saveTimer |-> NoTimer, updates |-> <<>>, entry |-> NoEntry]
    /\ calls = <<>>

NextAutosave ==
    \/ EditorUpdate
    \/ TimerFires
    \/ SaveNow
    \/ Tick

SpecAutosave == InitAutosave /\ [][NextAutosave]_vars

\* the pages of user u1 for the date shown
PagesShown == { r \in store.journal_entries : r.user_id = "u1" /\ r.date = ShownDate }

\* the persist calls whose upsert the store has completed without error
Saved == { k \in DOMAIN calls : calls[k].pc # "sent" /\ calls[k].res = "ok" }

\* the save the store completed last
LastSaved == CHOOSE k \in Saved : \A j \in Saved : calls[j].order <= calls[k].order

(* C26: the table holds at most one journal entry per (user, date); once   *)
(* saves of JournalTracker (autosave or "Save now") for a user and date    *)
(* have completed, exactly one row exists for the pair and it holds the    *)
(* content of the save that completed last.                                *)
C26_OnePagePerUserAndDate ==
    /\ \A r, o \in store.journal_entries :
          (r.user_id = o.user_id /\ r.date = o.date) => r = o
    /\ Saved # {} =>
          /\ Cardinality(PagesShown) = 1
          /\ \A r \in PagesShown : r.content = calls[LastSaved].content

\* an autosave and a "Save now" with different contents overlapped and the
\* store completed them in the reverse of the order they were issued in;
\* the page that was there before holds the content completed last
C26_Witness ==
    \E j, k \in Saved :
        /\ j < k
        /\ calls[j].by = "timer" /\ calls[k].by = "menu"
        /\ calls[k].order < calls[j].order
        /\ calls[j].content # calls[k].content
        /\ Cardinality(store.journal_entries) = 3
        /\ \E r \in PagesShown : r.content = calls[j].content /\ r.id = 1

\* the autosave persist calls issued at instant t
AutosavesAt(t) == { k \in DOMAIN calls : calls[k].by = "timer" /\ calls[k].at = t }

\* update i is the last of its burst: none follows it within the delay
LastOfBurst(i) ==
    \A j \in DOMAIN inv.updates :
        j > i => inv.updates[j] >= inv.updates[i] + AutosaveDelay

\* the timeouts due at instant t have run
HasPassed(t) == sched.now > t \/ (sched.now = t /\ ~TimerDue)

(* C29: at most one autosave timer is pending at any time; each editor     *)
(* update cancels the pending one and starts a new 800 ms one, so a burst  *)
(* of updates, each less than 800 ms after the one before, gives exactly   *)
(* one persist call, issued 800 ms after the last update of the burst.     *)
C29_OneAutosavePerBurst ==
    /\ Cardinality(sched.timers) <= 1
    /\ \A t \in sched.timers :
          /\ t.handle = inv.saveTimer
          /\ t.due = inv.updates[Len(inv.updates)] + AutosaveDelay
    /\ \A i \in DOMAIN inv.updates :
          LET t == inv.updates[i] + AutosaveDelay
          IN  IF LastOfBurst(i) /\ HasPassed(t)
              THEN Cardinality(AutosavesAt(t)) = 1
              ELSE LastOfBurst(i) => AutosavesAt(t) = {}
    /\ \A k \in DOMAIN calls :
          calls[k].by = "timer" =>
              \E i \in DOMAIN inv.updates :
                  LastOfBurst(i) /\ calls[k].at = inv.updates[i] + AutosaveDelay

\* a burst of two updates 400 ms apart was saved once, 800 ms after the
\* second, and nothing was saved 800 ms after the first
C29_Witness ==
    /\ Len(inv.updates) = 2
    /\ inv.updates[2] = inv.updates[1] + Quantum
    /\ Cardinality(AutosavesAt(inv.updates[2] + AutosaveDelay)) = 1
    /\ AutosavesAt(inv.updates[1] + AutosaveDelay) = {}
    /\ \A k \in DOMAIN calls : calls[k].by = "timer"
    /\ Len(calls) = 1

====
